---- MODULE Spec2Model ----
(***************************************************************************)
(* A model of the matching core of the Lurch deductive engine: expression  *)
(* trees, the de Bruijn encoder, Constraint (src/core/src/matching/        *)
(* constraint.js), Substitution (src/unnamed/part_000) and the search of  *)
(* the solver built on them.                                               *)
(***************************************************************************)
EXTENDS Integers, Sequences, FiniteSets, TLC

VARIABLES
    phase,  \* which component's life cycle this behaviour runs: "constraint", "substitution"
    con,    \* the Constraint object `this`: its fields and its caches
    conState, \* "none" before the constructor ran, "live" after, "threw" when it threw
    sub,    \* the Substitution object `this`: its fields and its cache
    subState, \* as conState, for the Substitution
    tgt,    \* the caller's tree t that the Substitution is applied to
    arg,    \* the arguments the constructor was called with
    res,    \* what the last operation was, its arguments and what it returned
    problem, \* the Problem being solved: its constraints and the solution so far
    steps,  \* how many steps the search of the solver has taken
    search, \* the solver run to exhaustion: the branches left and the stream so far
    tree,   \* the Environment conclusions() is called on, with its descendants
    concepts, \* the MathConcepts that can be connected: their IDs and attributes
    IDs,    \* Connection.IDs: connection ID -> the source MathConcept
    database \* the entries of the testing database, with their cached parsed results

vars == <<phase, con, conState, sub, subState, tgt, arg, res, problem, steps, search,
          tree, concepts, IDs, database>>

(* the variables a Constraint operation cannot touch *)
NotConstraint == <<sub, subState, tgt, problem, steps, search, tree, concepts, IDs, database>>
(* the variables a Substitution operation cannot touch *)
NotSubstitution == <<con, conState, problem, steps, search, tree, concepts, IDs, database>>

(***************************************************************************)
(* Bounds of the model.                                                    *)
(***************************************************************************)
MaxArgs == 2
MaxSubs == 2
MaxNodes == 5

(***************************************************************************)
(* Program constants.                                                      *)
(***************************************************************************)
EFAComplexityEstimate == 2

(***************************************************************************)
(* Expression trees.  Every node is a record of the same shape:            *)
(*   k  : "sym" (Symbol), "app" (Application), "bind" (binding expression) *)
(*   n  : the text of a symbol                                             *)
(*   mv : the metavariable attribute                                       *)
(*   ix : <<i, j>> on a de Bruijn marker, <<>> elsewhere                   *)
(*   at : names kept as an attribute (the original name on a marker, the   *)
(*        bound names on an encoded binder's head)                         *)
(*   ch : the children; a binding's children are its bound symbols         *)
(*        followed by its body                                             *)
(***************************************************************************)
Sym(name) == [k |-> "sym", n |-> name, mv |-> FALSE, ix |-> <<>>, at |-> <<>>, ch |-> <<>>]
MV(name) == [k |-> "sym", n |-> name, mv |-> TRUE, ix |-> <<>>, at |-> <<>>, ch |-> <<>>]
App(children) == [k |-> "app", n |-> "", mv |-> FALSE, ix |-> <<>>, at |-> <<>>, ch |-> children]
Bind(children) == [k |-> "bind", n |-> "", mv |-> FALSE, ix |-> <<>>, at |-> <<>>, ch |-> children]
Marker(i, j, name, flag) == [k |-> "sym", n |-> "LDE DB", mv |-> flag, ix |-> <<i, j>>, at |-> <<name>>, ch |-> <<>>]
LambdaHead(names) == [k |-> "sym", n |-> "LDE lambda", mv |-> FALSE, ix |-> <<>>, at |-> names, ch |-> <<>>]
EFAHead == Sym("LDE EFA")

numChildren(e) == Len(e.ch)
isMarker(e) == e.k = "sym" /\ Len(e.ix) = 2
isEncodedBinder(e) == e.k = "app" /\ Len(e.ch) = 2 /\ e.ch[1].k = "sym" /\ e.ch[1].n = "LDE lambda"

SeqsUpTo(S, n) == UNION {[1..m -> S] : m \in 0..n}

RECURSIVE SumSeq(_)
SumSeq(s) == IF s = <<>> THEN 0 ELSE Head(s) + SumSeq(Tail(s))

RECURSIVE Flatten(_)
Flatten(ss) == IF ss = <<>> THEN <<>> ELSE Head(ss) \o Flatten(Tail(ss))

IndexOf(s, v) == IF \E m \in 1..Len(s) : s[m] = v
                 THEN CHOOSE m \in 1..Len(s) : s[m] = v /\ \A q \in 1..(m-1) : s[q] # v
                 ELSE 0

(* MathConcept.equals: structural equality of trees and attributes *)
equals(a, b) == a = b

(* metavariables.js: does any descendant (the node included) carry the flag *)
RECURSIVE containsAMetavariable(_)
containsAMetavariable(e) ==
    \/ e.mv
    \/ \E m \in 1..Len(e.ch) : containsAMetavariable(e.ch[m])

(* metavariables.js: the names of the metavariables occurring in e *)
RECURSIVE metavariableNamesIn(_)
metavariableNamesIn(e) ==
    (IF e.k = "sym" /\ e.mv THEN {e.n} ELSE {})
        \cup UNION {metavariableNamesIn(e.ch[m]) : m \in 1..Len(e.ch)}

BoundNames(b) == {b.ch[m].n : m \in 1..(Len(b.ch) - 1)}

(* pattern.hasDescendantSatisfying( d => d.isA( metavariable ) && !d.isFree( pattern ) ):
   a flagged symbol below a binding that binds its name *)
RECURSIVE HasBoundMetavariable(_, _)
HasBoundMetavariable(e, bound) ==
    \/ e.k = "sym" /\ e.mv /\ e.n \in bound
    \/ \E m \in 1..Len(e.ch) :
          HasBoundMetavariable(e.ch[m], IF e.k = "bind" THEN bound \cup BoundNames(e) ELSE bound)

(* expression-functions.js: (@ F a1 ... an) with F a metavariable *)
isAnEFA(e) ==
    /\ e.k = "app"
    /\ Len(e.ch) >= 2
    /\ e.ch[1] = EFAHead
    /\ e.ch[2].k = "sym" /\ e.ch[2].mv


(***************************************************************************)
(* The de Bruijn encoder.  A binding becomes the Application               *)
(* (lambda body'), where body' has every bound occurrence of the j-th      *)
(* symbol of the i-th enclosing binding replaced by the marker (i, j); the *)
(* original names are kept as attributes only.                             *)
(***************************************************************************)
BinderLevel(name, ctx) ==
    IF \E m \in 1..Len(ctx) : IndexOf(ctx[m], name) > 0
    THEN CHOOSE m \in 1..Len(ctx) :
            /\ IndexOf(ctx[m], name) > 0
            /\ \A q \in 1..(m-1) : IndexOf(ctx[q], name) = 0
    ELSE 0

RECURSIVE encodeIn(_, _)
encodeIn(e, ctx) ==
    CASE e.k = "sym" ->
            IF ~isMarker(e) /\ BinderLevel(e.n, ctx) > 0
            THEN LET lvl == BinderLevel(e.n, ctx)
                 IN  Marker(lvl - 1, IndexOf(ctx[lvl], e.n) - 1, e.n, e.mv)
            ELSE e
      [] e.k = "app" -> App([m \in 1..Len(e.ch) |-> encodeIn(e.ch[m], ctx)])
      [] e.k = "bind" ->
            LET names == [m \in 1..(Len(e.ch) - 1) |-> e.ch[m].n]
            IN  App(<<LambdaHead(names), encodeIn(e.ch[Len(e.ch)], <<names>> \o ctx)>>)

encodeExpression(e) == encodeIn(e, <<>>)

RECURSIVE decodeIn(_, _)
decodeIn(e, ctx) ==
    CASE e.k = "sym" ->
            IF isMarker(e) /\ e.ix[1] < Len(ctx) /\ e.ix[2] < Len(ctx[e.ix[1] + 1])
            THEN [Sym(ctx[e.ix[1] + 1][e.ix[2] + 1]) EXCEPT !.mv = e.mv]
            ELSE e
      [] isEncodedBinder(e) ->
            LET names == e.ch[1].at
            IN  Bind([m \in 1..Len(names) |-> Sym(names[m])]
                     \o <<decodeIn(e.ch[2], <<names>> \o ctx)>>)
      [] e.k = "app" /\ ~isEncodedBinder(e) ->
            App([m \in 1..Len(e.ch) |-> decodeIn(e.ch[m], ctx)])
      [] e.k = "bind" ->
            Bind([m \in 1..Len(e.ch) |-> decodeIn(e.ch[m], ctx)])

decodeExpression(e) == decodeIn(e, <<>>)

(* de-bruijn.js equal(): structural equality that consults the metavariable
   flag and the marker indices but no other attribute *)
RECURSIVE deBruijnEquals(_, _)
deBruijnEquals(a, b) ==
    /\ a.k = b.k
    /\ a.n = b.n
    /\ a.mv = b.mv
    /\ a.ix = b.ix
    /\ Len(a.ch) = Len(b.ch)
    /\ \A m \in 1..Len(a.ch) : deBruijnEquals(a.ch[m], b.ch[m])

(* de-bruijn.js numberOfOccurrences(): how many descendants of e (e itself
   included) match d *)
RECURSIVE numberOfOccurrences(_, _)
numberOfOccurrences(d, e) ==
    (IF deBruijnEquals(d, e) THEN 1 ELSE 0)
        + SumSeq([m \in 1..Len(e.ch) |-> numberOfOccurrences(d, e.ch[m])])

(***************************************************************************)
(* Tree surgery of MathConcept, as Substitution uses it.                   *)
(***************************************************************************)
copy(e) == e

(* descendantsSatisfying( d => d.equals( m ) ): the addresses, in document
   order, of the nodes of t equal to m; <<>> is the address of t itself *)
RECURSIVE descendantsEqualTo(_, _)
descendantsEqualTo(t, m) ==
    (IF equals(t, m) THEN << <<>> >> ELSE <<>>)
        \o Flatten([c \in 1..Len(t.ch) |->
                LET below == descendantsEqualTo(t.ch[c], m)
                IN  [q \in 1..Len(below) |-> <<c>> \o below[q]]])

(* d.replaceWith( new ) for the node d at address path in t; a node with no
   parent (the root) cannot be replaced, and the call does nothing *)
RECURSIVE replaceWith(_, _, _)
replaceWith(t, path, new) ==
    IF path = <<>> THEN t
    ELSE IF Len(path) = 1 THEN [t EXCEPT !.ch[path[1]] = new]
    ELSE [t EXCEPT !.ch[path[1]] = replaceWith(t.ch[path[1]], Tail(path), new)]


(***************************************************************************)
(* Substitution (src/unnamed/part_000).  An object is the record           *)
(*   [metavariable, expression, hasNames, names]                           *)
(* where hasNames says whether _metavariableNames has been set.            *)
(***************************************************************************)
NewSubstitution(m, e) ==
    [metavariable |-> m, expression |-> e, hasNames |-> FALSE, names |-> {}]

(* a constructor that takes any symbol for a metavariable *)
SubstitutionArgsAnySymbol(a) ==
    \/ a.kind = "constraint" /\ a.p.k = "sym"
    \/ a.kind = "pair" /\ a.p.k = "sym" /\ a.e.k \in {"sym", "app", "bind"}

(* the two accepted argument lists of the constructor *)
SubstitutionArgsOK(a) ==
    \/ a.kind = "constraint" /\ a.p.k = "sym" /\ a.p.mv
    \/ a.kind = "pair" /\ a.p.k = "sym" /\ a.p.mv /\ a.e.k \in {"sym", "app", "bind"}

(* metavariableNames(): the object after the call, its cache filled *)
withNames(S) ==
    IF S.hasNames THEN S
    ELSE [S EXCEPT !.hasNames = TRUE, !.names = metavariableNamesIn(S.expression)]

metavariableNames(S) == withNames(S).names

RECURSIVE replaceEach(_, _, _)
replaceEach(t, paths, new) ==
    IF paths = <<>> THEN t
    ELSE replaceEach(replaceWith(t, Head(paths), copy(new)), Tail(paths), new)

(* an applyTo() that replaces only the first occurrence it found *)
applyToFirstOnly(S, target) ==
    LET toReplace == descendantsEqualTo(target, S.metavariable)
    IN  IF toReplace = <<>> THEN target
        ELSE replaceWith(target, Head(toReplace), copy(S.expression))

(* applyTo( target ) for a LogicConcept target: the target after the call *)
applyTo(S, target) ==
    LET toReplace == descendantsEqualTo(target, S.metavariable)
    IN  replaceEach(target, toReplace, S.expression)

(* an appliedTo() without the case of a target that is the metavariable *)
appliedToWithoutCornerCase(S, target) ==
    [ret |-> applyTo(S, copy(target)), target |-> target]

(* appliedTo( target ) for a LogicConcept target: ret is what is returned,
   target is the caller's tree after the call *)
appliedTo(S, target) ==
    IF equals(target, S.metavariable) /\ target.mv
    THEN [ret |-> copy(S.expression), target |-> target]
    ELSE LET duplicate == copy(target)
         IN  [ret |-> applyTo(S, duplicate), target |-> target]

copySubstitution(S) ==
    LET result == NewSubstitution(copy(S.metavariable), copy(S.expression))
    IN  IF S.hasNames
        THEN [result EXCEPT !.hasNames = TRUE, !.names = S.names]
        ELSE result


(* one round of the loop of substitute(): entry.self says that the argument
   is this very object, entry.s is the argument otherwise *)
substituteOne(S, entry) ==
    LET S1 == withNames(S)
        X == IF entry.self THEN S1 ELSE entry.s
    IN  IF X.metavariable.n \notin S1.names
        THEN S1
        ELSE LET S2 == [S1 EXCEPT
                           !.expression = appliedTo(X, S1.expression).ret,
                           !.names = S1.names \ {X.metavariable.n}]
                 added == IF entry.self THEN S2.names ELSE metavariableNames(X)
             IN  [S2 EXCEPT !.names = S2.names \cup added]

(* substitute( ...subs ): the object after the call *)
RECURSIVE substitute(_, _)
substitute(S, entries) ==
    IF entries = <<>> THEN S
    ELSE substitute(substituteOne(S, Head(entries)), Tail(entries))

(* afterSubstituting( ...subs ) of a Substitution: the copy returned; an
   argument that is the receiver stays the receiver, not the copy *)
substitutionAfterSubstituting(S, entries) ==
    substitute(copySubstitution(S),
               [m \in 1..Len(entries) |->
                   IF entries[m].self
                   THEN [self |-> FALSE, s |-> S]
                   ELSE entries[m]])

(* the arguments as the copy sees them: the receiver is another object *)
seenFromCopy(S, entries) ==
    [m \in 1..Len(entries) |->
        IF entries[m].self THEN [self |-> FALSE, s |-> S] ELSE entries[m]]

(* does T.substitute( ...entries ) reach sub.metavariableNames() for an
   argument that is the receiver: that call fills the receiver's cache *)
RECURSIVE callsReceiverNames(_, _)
callsReceiverNames(T, entries) ==
    IF entries = <<>> THEN FALSE
    ELSE LET X == Head(entries)
             own == [self |-> FALSE, s |-> X.s]
         IN  \/ X.self /\ X.s.metavariable.n \in metavariableNames(T)
             \/ callsReceiverNames(substituteOne(T, own), Tail(entries))

(* the receiver of afterSubstituting( ...subs ) after the call *)
receiverAfterSubstituting(S, entries) ==
    IF callsReceiverNames(copySubstitution(S),
                          [m \in 1..Len(entries) |->
                              [self |-> entries[m].self,
                               s |-> IF entries[m].self THEN S ELSE entries[m].s]])
    THEN withNames(S)
    ELSE S

(* result._metavariableNames = new Set( this._metavariableNames ): the
   copy's name set is an object of its own, not the receiver's *)
copySharesNames(S) == FALSE

RECURSIVE nodeCount(_)
nodeCount(e) == 1 + SumSeq([m \in 1..Len(e.ch) |-> nodeCount(e.ch[m])])

(***************************************************************************)
(* Constraint (src/core/src/matching/constraint.js).  An object is the     *)
(* record [pattern, expression, hasComplexity, complexity, hasArgs,        *)
(* argumentCopyCount, argumentContainsMetavariable, argumentComplexity];   *)
(* hasComplexity says whether _complexity has been set, hasArgs whether    *)
(* the three _argument... arrays have.                                     *)
(***************************************************************************)
NewConstraint(p, e) ==
    [pattern |-> p, expression |-> e,
     hasComplexity |-> FALSE, complexity |-> 0,
     hasArgs |-> FALSE, argumentCopyCount |-> <<>>,
     argumentContainsMetavariable |-> <<>>, argumentComplexity |-> <<>>]

(* a constructor that forgets the test for bound metavariables *)
constructorAcceptsAnyPattern(p, e) ==
    ~containsAMetavariable(e)

(* the constructor returns normally *)
constructorAccepts(p, e) ==
    /\ ~containsAMetavariable(e)
    /\ ~HasBoundMetavariable(p, {})

isAnInstantiation(c) == c.pattern.k = "sym" /\ c.pattern.mv

(* complexity(): the object after the call; the value returned is its
   complexity field *)
complexity(c) ==
    IF c.hasComplexity THEN c
    ELSE IF isAnInstantiation(c)
    THEN [c EXCEPT !.hasComplexity = TRUE, !.complexity = 2]
    ELSE IF isAnEFA(c.pattern)
    THEN LET nArgs == numChildren(c.pattern) - 2
             copyCount == [m \in 1..nArgs |->
                              numberOfOccurrences(c.pattern.ch[m + 2], c.expression)]
             hasMetavariable == [m \in 1..nArgs |->
                              containsAMetavariable(c.pattern.ch[m + 2])]
             argComplexity == [m \in 1..nArgs |->
                              IF hasMetavariable[m] THEN EFAComplexityEstimate
                              ELSE copyCount[m]]
         IN  [c EXCEPT !.hasArgs = TRUE,
                       !.argumentCopyCount = copyCount,
                       !.argumentContainsMetavariable = hasMetavariable,
                       !.argumentComplexity = argComplexity,
                       !.hasComplexity = TRUE,
                       !.complexity = 4 + SumSeq(argComplexity)]
    ELSE IF ~containsAMetavariable(c.pattern)
    THEN [c EXCEPT !.hasComplexity = TRUE,
                   !.complexity = IF deBruijnEquals(c.pattern, c.expression) THEN 1 ELSE 0]
    ELSE [c EXCEPT !.hasComplexity = TRUE,
                   !.complexity = IF numChildren(c.pattern) = numChildren(c.expression)
                                  THEN 3 ELSE 0]

(* a children() that pairs the children of p with those of e in the
   opposite order *)
childrenCrossed(c) ==
    IF c.complexity # 3
    THEN [threw |-> TRUE, list |-> <<>>]
    ELSE IF \E m \in 1..numChildren(c.pattern) :
               \/ m > numChildren(c.expression)
               \/ ~constructorAccepts(c.pattern.ch[m],
                                      c.expression.ch[numChildren(c.pattern) + 1 - m])
    THEN [threw |-> TRUE, list |-> <<>>]
    ELSE [threw |-> FALSE,
          list |-> [m \in 1..numChildren(c.pattern) |->
                        NewConstraint(c.pattern.ch[m],
                                      c.expression.ch[numChildren(c.pattern) + 1 - m])]]

(* a children() that hands back the constraint itself *)
childrenOfItself(c) ==
    IF c.complexity # 3
    THEN [threw |-> TRUE, list |-> <<>>]
    ELSE [threw |-> FALSE, list |-> <<NewConstraint(c.pattern, c.expression)>>]

(* children(): [threw, list]; c must already be complexity(c) *)
children(c) ==
    IF c.complexity # 3
    THEN [threw |-> TRUE, list |-> <<>>]
    ELSE IF \E m \in 1..numChildren(c.pattern) :
               \/ m > numChildren(c.expression)
               \/ ~constructorAccepts(c.pattern.ch[m], c.expression.ch[m])
    THEN [threw |-> TRUE, list |-> <<>>]
    ELSE [threw |-> FALSE,
          list |-> [m \in 1..numChildren(c.pattern) |->
                        NewConstraint(c.pattern.ch[m], c.expression.ch[m])]]

RECURSIVE applySubs(_, _)
applySubs(subs, target) ==
    IF subs = <<>> THEN target
    ELSE applySubs(Tail(subs), appliedTo(Head(subs), target).ret)

RECURSIVE reversed(_)
reversed(q) == IF q = <<>> THEN <<>> ELSE reversed(Tail(q)) \o <<Head(q)>>

(* an afterSubstituting() that applies its arguments last to first *)
afterSubstitutingLastFirst(c, subs) ==
    LET newPattern == applySubs(reversed(subs), c.pattern)
    IN  IF constructorAccepts(newPattern, c.expression)
        THEN [threw |-> FALSE, list |-> <<NewConstraint(newPattern, c.expression)>>]
        ELSE [threw |-> TRUE, list |-> <<>>]

(* an afterSubstituting() that applies nothing *)
afterSubstitutingNothing(c, subs) ==
    [threw |-> FALSE, list |-> <<NewConstraint(c.pattern, c.expression)>>]

(* afterSubstituting( ...subs ): [threw, list] *)
afterSubstituting(c, subs) ==
    LET newPattern == applySubs(subs, c.pattern)
    IN  IF constructorAccepts(newPattern, c.expression)
        THEN [threw |-> FALSE, list |-> <<NewConstraint(newPattern, c.expression)>>]
        ELSE [threw |-> TRUE, list |-> <<>>]

constraintEquals(c, other) ==
    equals(c.pattern, other.pattern) /\ equals(c.expression, other.expression)

deBruijnEncode(c) ==
    [c EXCEPT !.pattern = encodeExpression(c.pattern),
              !.expression = encodeExpression(c.expression)]

deBruijnDecode(c) ==
    [c EXCEPT !.pattern = decodeExpression(c.pattern),
              !.expression = decodeExpression(c.expression)]


(***************************************************************************)
(* The inputs the model draws from.                                        *)
(***************************************************************************)
symX == Sym("x")
symY == Sym("y")
symF == Sym("f")
mvA == MV("A")
mvB == MV("B")

ArgPool == {symX, mvB}

EFAPatterns ==
    {App(<<EFAHead, mvA>> \o s) : s \in SeqsUpTo(ArgPool, MaxArgs)}
    \cup {App(<<EFAHead, mvA, App(<<symF, symX>>)>>),
          App(<<EFAHead, mvA, symX, App(<<symF, symX>>)>>)}

OtherPatterns ==
    {symX, mvA,
     App(<<symF, symX>>), App(<<symF, mvA>>), App(<<symF, mvA, mvB>>),
     App(<<mvA, symX, symX>>),
     App(<<symF, App(<<symF, mvA>>)>>),
     Bind(<<symX, symX>>), Bind(<<symX, mvA>>), Bind(<<mvA, mvA>>),
     App(<<symF, Bind(<<mvA, mvA>>)>>),
     App(<<mvA, Bind(<<symX, mvB>>)>>)}

Patterns == EFAPatterns \cup OtherPatterns

Expressions ==
    {symX, mvA,
     App(<<symF, symX>>), App(<<symX, symX>>), App(<<symF, symX, symY>>),
     App(<<symF, mvA>>),
     App(<<symF, App(<<symF, symX>>)>>),
     App(<<App(<<symF, symX>>), App(<<symF, symX>>)>>),
     Bind(<<symY, symY>>), Bind(<<symX, symY>>), Bind(<<symX, symY, symX>>)}

SubPool ==
    {NewSubstitution(mvA, App(<<symF, mvB>>)),
     NewSubstitution(mvB, symX),
     NewSubstitution(mvA, Bind(<<mvB, mvB>>))}

(* the argument lists of afterSubstituting() and substitute(): lists of
   distinct members of a pool *)
ListsOf(pool, n) ==
    {s \in SeqsUpTo(pool, n) : \A m, q \in 1..Len(s) : m # q => s[m] # s[q]}

NoExpr == Sym("")
NoRes == [op |-> "none", threw |-> FALSE, int |-> 0, bool |-> FALSE,
          list |-> <<>>, subs |-> <<>>, expr |-> NoExpr, target |-> NoExpr,
          again |-> FALSE, names |-> {}, alias |-> FALSE]
Result(name) == [NoRes EXCEPT !.op = name]
NoProblem == [status |-> "none", original |-> <<>>, constraints |-> <<>>,
              solution |-> <<>>, fresh |-> 0]
NoSearch == [run |-> 0, running |-> FALSE, stack |-> <<>>, stream |-> <<>>, streams |-> <<>>]
NoTree == [kind |-> "none", given |-> FALSE, ch |-> <<>>]
NoDatabase == [entries |-> <<>>, parses |-> 0, seen |-> <<>>]
NoDocument == tree = NoTree /\ concepts = <<>> /\ IDs = <<>> /\ database = NoDatabase

(***************************************************************************)
(* The pruning predicates of Constraint, for use by the Problem class.     *)
(* Before complexity() has classified an EFA the three _argument... arrays *)
(* do not exist, and indexing one raises a TypeError.                      *)
(***************************************************************************)
canBeOnlyConstantEFA(c) == c.hasComplexity /\ c.complexity = 4

(* a pruning that keeps a projection only for an argument with a metavariable *)
canBeAProjectionEFAOnlyPatterns(c, index) ==
    IF ~c.hasArgs
    THEN [threw |-> TRUE, value |-> FALSE]
    ELSE [threw |-> FALSE,
          value |-> /\ index + 1 \in 1..Len(c.argumentCopyCount)
                    /\ c.argumentContainsMetavariable[index + 1]]

(* canBeAProjectionEFA( index ), index counting from 0: [threw, value] *)
canBeAProjectionEFA(c, index) ==
    IF ~c.hasArgs
    THEN [threw |-> TRUE, value |-> FALSE]
    ELSE [threw |-> FALSE,
          value |-> /\ index + 1 \in 1..Len(c.argumentCopyCount)
                    /\ \/ c.argumentCopyCount[index + 1] = 1
                       \/ c.argumentContainsMetavariable[index + 1]]

(***************************************************************************)
(* The life cycle of one Constraint.                                       *)
(***************************************************************************)
Init ==
    /\ phase = "constraint"
    /\ arg \in [kind : {"constraint"}, p : Patterns, e : Expressions]
    /\ con = NewConstraint(NoExpr, NoExpr)
    /\ conState = "none"
    /\ sub = NewSubstitution(NoExpr, NoExpr)
    /\ subState = "none"
    /\ tgt = NoExpr
    /\ res = NoRes
    /\ problem = NoProblem
    /\ steps = 0
    /\ search = NoSearch
    /\ NoDocument

Live == phase = "constraint" /\ conState = "live"

(* new Constraint( pattern, expression ) *)
Construct ==
    /\ phase = "constraint" /\ conState = "none"
    /\ IF constructorAccepts(arg.p, arg.e)
       THEN /\ con' = NewConstraint(arg.p, arg.e)
            /\ conState' = "live"
            /\ res' = Result("new")
       ELSE /\ con' = con
            /\ conState' = "threw"
            /\ res' = [Result("new") EXCEPT !.threw = TRUE]
    /\ UNCHANGED <<phase, arg, NotConstraint>>

Complexity ==
    /\ Live
    /\ con' = complexity(con)
    /\ res' = [Result("complexity") EXCEPT !.int = complexity(con).complexity]
    /\ UNCHANGED <<phase, conState, arg, NotConstraint>>

Children ==
    /\ Live
    /\ con' = complexity(con)
    /\ LET r == children(complexity(con))
       IN  res' = [Result("children") EXCEPT !.threw = r.threw, !.list = r.list]
    /\ UNCHANGED <<phase, conState, arg, NotConstraint>>

(* copy () { return new Constraint( this._pattern, this._expression ) } *)
Copy ==
    /\ Live
    /\ res' = IF constructorAccepts(con.pattern, con.expression)
              THEN [Result("copy") EXCEPT
                        !.list = <<NewConstraint(con.pattern, con.expression)>>]
              ELSE [Result("copy") EXCEPT !.threw = TRUE]
    /\ UNCHANGED <<phase, con, conState, arg, NotConstraint>>

(* equals( other ), other being a Constraint made of the constructor's arguments *)
Equals ==
    /\ Live
    /\ res' = [Result("equals") EXCEPT
                  !.bool = constraintEquals(con, NewConstraint(arg.p, arg.e))]
    /\ UNCHANGED <<phase, con, conState, arg, NotConstraint>>

IsAnInstantiation ==
    /\ Live
    /\ res' = [Result("isAnInstantiation") EXCEPT !.bool = isAnInstantiation(con)]
    /\ UNCHANGED <<phase, con, conState, arg, NotConstraint>>

AfterSubstituting ==
    /\ Live
    /\ \E subs \in ListsOf(SubPool, MaxSubs) :
          LET r == afterSubstituting(con, subs)
          IN  res' = [Result("afterSubstituting") EXCEPT
                          !.threw = r.threw, !.list = r.list, !.subs = subs]
    /\ UNCHANGED <<phase, con, conState, arg, NotConstraint>>

DeBruijnEncode ==
    /\ Live
    /\ con' = deBruijnEncode(con)
    /\ res' = Result("deBruijnEncode")
    /\ UNCHANGED <<phase, conState, arg, NotConstraint>>

DeBruijnDecode ==
    /\ Live
    /\ con' = deBruijnDecode(con)
    /\ res' = Result("deBruijnDecode")
    /\ UNCHANGED <<phase, conState, arg, NotConstraint>>

(* canBeOnlyConstantEFA () *)
CanBeOnlyConstantEFA ==
    /\ Live
    /\ res' = [Result("canBeOnlyConstantEFA") EXCEPT !.bool = canBeOnlyConstantEFA(con)]
    /\ UNCHANGED <<phase, con, conState, arg, NotConstraint>>

(* canBeAProjectionEFA( index ), for the indices of the EFA's arguments *)
CanBeAProjectionEFA ==
    /\ Live
    /\ isAnEFA(con.pattern)
    /\ \E index \in 0..(numChildren(con.pattern) - 3) :
          LET r == canBeAProjectionEFA(con, index)
          IN  res' = [Result("canBeAProjectionEFA") EXCEPT
                          !.threw = r.threw, !.bool = r.value, !.int = index]
    /\ UNCHANGED <<phase, con, conState, arg, NotConstraint>>

Next ==
    \/ Construct
    \/ Complexity
    \/ Children
    \/ Copy
    \/ Equals
    \/ IsAnInstantiation
    \/ AfterSubstituting
    \/ DeBruijnEncode
    \/ DeBruijnDecode
    \/ CanBeOnlyConstantEFA
    \/ CanBeAProjectionEFA

Spec == Init /\ [][Next]_vars


(***************************************************************************)
(* Reference definitions the claims are stated with.                       *)
(***************************************************************************)
(* the classification of a pair (p, e), by first match *)
ReferenceComplexity(p, e) ==
    CASE p.k = "sym" /\ p.mv -> 2
      [] ~(p.k = "sym" /\ p.mv) /\ isAnEFA(p) ->
            4 + SumSeq([m \in 1..(Len(p.ch) - 2) |->
                    IF containsAMetavariable(p.ch[m + 2]) THEN 2
                    ELSE numberOfOccurrences(p.ch[m + 2], e)])
      [] ~(p.k = "sym" /\ p.mv) /\ ~isAnEFA(p) /\ ~containsAMetavariable(p) ->
            IF deBruijnEquals(p, e) THEN 1 ELSE 0
      [] OTHER -> IF Len(p.ch) = Len(e.ch) THEN 3 ELSE 0

(* every subexpression of t equal to m replaced by e, in one pass *)
RECURSIVE Simultaneous(_, _, _)
Simultaneous(m, e, t) ==
    IF t = m THEN e
    ELSE [t EXCEPT !.ch = [c \in 1..Len(t.ch) |-> Simultaneous(m, e, t.ch[c])]]

RECURSIVE InSequence(_, _)
InSequence(subs, t) ==
    IF subs = <<>> THEN t
    ELSE InSequence(Tail(subs),
                    Simultaneous(Head(subs).metavariable, Head(subs).expression, t))

WellFormedConstraint(c) ==
    /\ ~containsAMetavariable(c.expression)
    /\ ~HasBoundMetavariable(c.pattern, {})

(***************************************************************************)
(* C2: for every constraint (p,e), complexity() returns the reference      *)
(* classification of (p,e): 2 for a lone metavariable, 4 + the sum of the  *)
(* per-argument values for an EFA, 1 or 0 for a metavariable-free pattern  *)
(* equal or not to e, and otherwise 3 or 0 by the numbers of children.     *)
(***************************************************************************)
C2_ComplexityIsReference ==
    (Live /\ res.op = "complexity")
        => res.int = ReferenceComplexity(con.pattern, con.expression)

(***************************************************************************)
(* C3: the constructor throws exactly when e contains a metavariable or p  *)
(* contains a bound one, and every Constraint in existence (this one and   *)
(* those returned by copy(), children() and afterSubstituting()) has a     *)
(* metavariable-free expression and no bound metavariable in its pattern.  *)
(***************************************************************************)
C3_ConstructorGuard ==
    phase = "constraint" =>
        /\ conState = "threw" =>
              (containsAMetavariable(arg.e) \/ HasBoundMetavariable(arg.p, {}))
        /\ conState = "live" =>
              /\ ~containsAMetavariable(arg.e) /\ ~HasBoundMetavariable(arg.p, {})
              /\ WellFormedConstraint(con)
              /\ \A m \in 1..Len(res.list) : WellFormedConstraint(res.list[m])

C3_Witness ==
    /\ Live
    /\ res.op = "afterSubstituting" /\ res.threw
    /\ Len(res.subs) > 0

(***************************************************************************)
(* C6: a Constraint is immutable: after any sequence of its operations its *)
(* pattern and expression are the constructor's arguments, and the cached  *)
(* complexity is the classification of its current pattern and expression. *)
(***************************************************************************)
C6_Immutable ==
    Live =>
        /\ con.pattern = arg.p
        /\ con.expression = arg.e
        /\ con.hasComplexity =>
              con.complexity = ReferenceComplexity(con.pattern, con.expression)

(***************************************************************************)
(* C7: children() throws whenever complexity() is not 3, and otherwise     *)
(* returns arity(p) constraints, the i-th pairing the i-th child of p with *)
(* the i-th child of e, without any constructor failing.                   *)
(***************************************************************************)
C7_Children ==
    (Live /\ res.op = "children") =>
        IF con.complexity # 3
        THEN res.threw
        ELSE /\ ~res.threw
             /\ Len(res.list) = numChildren(con.pattern)
             /\ \A m \in 1..Len(res.list) :
                   /\ res.list[m].pattern = con.pattern.ch[m]
                   /\ res.list[m].expression = con.expression.ch[m]

(***************************************************************************)
(* C8 as stated: afterSubstituting(S1,...,Sn) returns a new Constraint     *)
(* whose pattern is S1, ..., Sn applied in turn to p and whose expression  *)
(* is e, and leaves the receiver (pattern, expression, cache) unchanged.   *)
(***************************************************************************)
C8_AlwaysReturns ==
    (Live /\ res.op = "afterSubstituting") =>
        /\ ~res.threw
        /\ Len(res.list) = 1
        /\ res.list[1].pattern = InSequence(res.subs, con.pattern)
        /\ res.list[1].expression = con.expression

(***************************************************************************)
(* C8 amended: afterSubstituting(S1,...,Sn) leaves the receiver unchanged; *)
(* it throws the constructor's error exactly when the substituted pattern  *)
(* contains a bound metavariable, and otherwise returns a new Constraint   *)
(* with that pattern, the same e and no cached complexity.                 *)
(***************************************************************************)
C8_AfterSubstituting ==
    [][res'.op = "afterSubstituting" =>
          /\ con' = con
          /\ res'.threw = HasBoundMetavariable(InSequence(res'.subs, con.pattern), {})
          /\ ~res'.threw =>
                /\ Len(res'.list) = 1
                /\ res'.list[1].pattern = InSequence(res'.subs, con.pattern)
                /\ res'.list[1].expression = con.expression
                /\ ~res'.list[1].hasComplexity]_vars

C8_Witness ==
    /\ Live
    /\ res.op = "afterSubstituting" /\ ~res.threw
    /\ Len(res.subs) = 2
    /\ res.list[1].pattern # con.pattern
    /\ res.list[1].pattern # InSequence(<<res.subs[2], res.subs[1]>>, con.pattern)
    /\ con.hasComplexity


(***************************************************************************)
(* The life cycle of one Substitution.                                     *)
(***************************************************************************)
(* a LogicConcept that is not an Expression *)
AnEnvironment == [k |-> "env", n |-> "", mv |-> FALSE, ix |-> <<>>, at |-> <<>>, ch |-> <<>>]

FlaggedApplication == [App(<<symF, symX>>) EXCEPT !.mv = TRUE]

SubstitutionArgs ==
    [kind : {"pair"},
     p : {mvA, symX, FlaggedApplication},
     e : {symX, mvB, App(<<symF, mvA>>), App(<<symF, mvB, mvB>>), AnEnvironment}]
    \cup [kind : {"constraint"}, p : {mvA, App(<<symF, mvA>>)}, e : {App(<<symF, symX>>)}]
    \cup [kind : {"other"}, p : {mvA}, e : {symX}]

Targets ==
    {mvA, mvB, symX,
     App(<<symF, mvA, mvA>>),
     App(<<mvA, App(<<symF, mvA>>), mvB>>),
     Bind(<<symX, App(<<mvA, symX>>)>>)}

XPool ==
    {[self |-> TRUE, s |-> NewSubstitution(NoExpr, NoExpr)],
     [self |-> FALSE, s |-> NewSubstitution(mvA, symY)],
     [self |-> FALSE, s |-> NewSubstitution(mvB, App(<<symF, mvA>>))],
     [self |-> FALSE, s |-> NewSubstitution(mvB, symX)]}

InitSub ==
    /\ phase = "substitution"
    /\ arg \in SubstitutionArgs
    /\ tgt \in Targets
    /\ sub = NewSubstitution(NoExpr, NoExpr)
    /\ subState = "none"
    /\ con = NewConstraint(NoExpr, NoExpr)
    /\ conState = "none"
    /\ res = NoRes
    /\ problem = NoProblem
    /\ steps = 0
    /\ search = NoSearch
    /\ NoDocument

LiveSub == phase = "substitution" /\ subState = "live"

(* new Substitution( ...args ) *)
ConstructSubstitution ==
    /\ phase = "substitution" /\ subState = "none"
    /\ IF SubstitutionArgsOK(arg)
       THEN /\ sub' = NewSubstitution(arg.p, arg.e)
            /\ subState' = "live"
            /\ res' = Result("new")
       ELSE /\ sub' = sub
            /\ subState' = "threw"
            /\ res' = [Result("new") EXCEPT !.threw = TRUE]
    /\ UNCHANGED <<phase, arg, tgt, NotSubstitution>>

MetavariableNames ==
    /\ LiveSub
    /\ sub' = withNames(sub)
    /\ res' = [Result("metavariableNames") EXCEPT !.names = metavariableNames(sub)]
    /\ UNCHANGED <<phase, subState, arg, tgt, NotSubstitution>>

CopySubstitution ==
    /\ LiveSub
    /\ res' = [Result("copy") EXCEPT
                  !.list = <<copySubstitution(sub)>>,
                  !.alias = sub.hasNames /\ copySharesNames(sub)]
    /\ UNCHANGED <<phase, sub, subState, arg, tgt, NotSubstitution>>

(* S.appliedTo( t ) *)
AppliedTo ==
    /\ LiveSub
    /\ LET r == appliedTo(sub, tgt)
       IN  /\ tgt' = r.target
           /\ res' = [Result("appliedTo") EXCEPT !.expr = r.ret, !.target = tgt]
    /\ UNCHANGED <<phase, sub, subState, arg, NotSubstitution>>

(* S.appliedTo( r ), r being what the previous S.appliedTo() returned *)
AppliedToResult ==
    /\ LiveSub
    /\ res.op = "appliedTo"
    /\ nodeCount(res.expr) <= MaxNodes
    /\ LET r == appliedTo(sub, res.expr)
       IN  res' = [Result("appliedTo") EXCEPT
                      !.expr = r.ret, !.target = res.expr, !.again = TRUE]
    /\ UNCHANGED <<phase, sub, subState, arg, tgt, NotSubstitution>>

(* S.substitute( X1, ..., Xn ) *)
Substitute ==
    /\ LiveSub
    /\ nodeCount(sub.expression) <= MaxNodes
    /\ \E entries \in ListsOf(XPool, MaxSubs) :
          /\ sub' = substitute(sub, entries)
          /\ res' = [Result("substitute") EXCEPT !.subs = entries]
    /\ UNCHANGED <<phase, subState, arg, tgt, NotSubstitution>>

(* X.applyTo( S ): S has a substitute() method, which is called with X *)
ApplyToSubstitution ==
    /\ LiveSub
    /\ nodeCount(sub.expression) <= MaxNodes
    /\ \E entry \in XPool :
          /\ sub' = substitute(sub, <<entry>>)
          /\ res' = [Result("applyTo") EXCEPT !.subs = <<entry>>]
    /\ UNCHANGED <<phase, subState, arg, tgt, NotSubstitution>>

(* S.afterSubstituting( X1, ..., Xn ) *)
SubstitutionAfterSubstituting ==
    /\ LiveSub
    /\ nodeCount(sub.expression) <= MaxNodes
    /\ \E entries \in ListsOf(XPool, MaxSubs) :
          /\ res' = [Result("afterSubstituting") EXCEPT
                        !.subs = entries,
                        !.list = <<substitutionAfterSubstituting(sub, entries)>>,
                        !.alias = sub.hasNames /\ copySharesNames(sub)]
          /\ sub' = receiverAfterSubstituting(sub, entries)
    /\ UNCHANGED <<phase, subState, arg, tgt, NotSubstitution>>

(* a copy of the receiver is at hand: what copy() or afterSubstituting()
   returned last *)
CopyAtHand ==
    /\ LiveSub
    /\ res.op \in {"copy", "afterSubstituting"}
    /\ Len(res.list) = 1

(* T.substitute( X1, ..., Xn ), T being the copy at hand; an argument may be
   the receiver.  When the two objects share one name set, what the call
   does to the set shows in both *)
SubstituteCopy ==
    /\ CopyAtHand
    /\ nodeCount(res.list[1].expression) <= MaxNodes
    /\ \E entries \in ListsOf(XPool, MaxSubs) :
          LET T == substitute(res.list[1], seenFromCopy(sub, entries))
              S == IF callsReceiverNames(res.list[1], seenFromCopy(sub, entries))
                   THEN withNames(sub) ELSE sub
          IN  /\ res' = [Result("substituteCopy") EXCEPT !.list = <<T>>, !.subs = entries]
              /\ sub' = IF res.alias THEN [S EXCEPT !.names = T.names] ELSE S
    /\ UNCHANGED <<phase, subState, arg, tgt, NotSubstitution>>

(* S.substitute( X1, ..., Xn ) on the receiver while the copy is at hand *)
SubstituteReceiver ==
    /\ CopyAtHand
    /\ nodeCount(sub.expression) <= MaxNodes
    /\ \E entries \in ListsOf(XPool, MaxSubs) :
          /\ sub' = substitute(sub, entries)
          /\ res' = [Result("substituteReceiver") EXCEPT
                        !.subs = entries,
                        !.list = IF res.alias
                                 THEN <<[res.list[1] EXCEPT !.names = substitute(sub, entries).names]>>
                                 ELSE res.list]
    /\ UNCHANGED <<phase, subState, arg, tgt, NotSubstitution>>

NextSub ==
    \/ ConstructSubstitution
    \/ MetavariableNames
    \/ CopySubstitution
    \/ AppliedTo
    \/ AppliedToResult
    \/ Substitute
    \/ ApplyToSubstitution
    \/ SubstitutionAfterSubstituting
    \/ SubstituteCopy
    \/ SubstituteReceiver

SpecSub == InitSub /\ [][NextSub]_vars


(***************************************************************************)
(* C4: S.appliedTo(t), for S = (M,e), returns t with every subexpression   *)
(* equal to M replaced by a copy of e, all at once (nothing inside an      *)
(* inserted copy is substituted again), also when t is M itself, and       *)
(* leaves t and S as they were.                                            *)
(***************************************************************************)
C4_AppliedTo ==
    [][res'.op = "appliedTo" =>
          /\ tgt' = tgt
          /\ sub' = sub
          /\ res'.expr = Simultaneous(sub.metavariable, sub.expression, res'.target)]_vars

C4_Witness ==
    /\ LiveSub
    /\ res.op = "appliedTo" /\ ~res.again
    /\ res.target = tgt
    /\ Len(descendantsEqualTo(tgt, sub.metavariable)) >= 2
    /\ containsAMetavariable(sub.expression)
    /\ descendantsEqualTo(sub.expression, sub.metavariable) # <<>>

(***************************************************************************)
(* C5 as stated: for every constructible Substitution S and every t,       *)
(* S.appliedTo(S.appliedTo(t)) equals S.appliedTo(t).                      *)
(***************************************************************************)
C5_Idempotent ==
    (LiveSub /\ res.op = "appliedTo" /\ res.again) => res.expr = res.target

(***************************************************************************)
(* C5 amended: for every constructible Substitution S = (M,e) whose        *)
(* expression e has no subexpression equal to M, and every t,              *)
(* S.appliedTo(S.appliedTo(t)) equals S.appliedTo(t).                      *)
(***************************************************************************)
C5_IdempotentWithoutSelfReference ==
    (/\ LiveSub
     /\ res.op = "appliedTo" /\ res.again
     /\ descendantsEqualTo(sub.expression, sub.metavariable) = <<>>)
        => res.expr = res.target

C5_Witness ==
    /\ LiveSub
    /\ res.op = "appliedTo" /\ res.again
    /\ descendantsEqualTo(sub.expression, sub.metavariable) = <<>>
    /\ Len(descendantsEqualTo(tgt, sub.metavariable)) >= 2
    /\ res.target # tgt
    /\ containsAMetavariable(sub.expression)

(***************************************************************************)
(* C9: the Substitution constructor succeeds only for a pair (M,e) with M  *)
(* a symbol carrying the metavariable flag and e an Expression, or for a   *)
(* single Constraint that is an instantiation; any other argument list     *)
(* throws and creates nothing, so the metavariable of every Substitution   *)
(* in existence is a flagged symbol.                                       *)
(***************************************************************************)
AcceptableArguments ==
    \/ /\ arg.kind = "pair"
       /\ arg.p.k = "sym" /\ arg.p.mv
       /\ arg.e.k # "env"
    \/ /\ arg.kind = "constraint"
       /\ arg.p.k = "sym" /\ arg.p.mv /\ arg.p.ch = <<>>

C9_ConstructorGuard ==
    phase = "substitution" =>
        /\ subState = "live" =>
              /\ AcceptableArguments
              /\ sub.metavariable.k = "sym" /\ sub.metavariable.mv
              /\ sub.metavariable = arg.p
              /\ res.op \in {"copy", "afterSubstituting"} =>
                    \A m \in 1..Len(res.list) :
                        /\ res.list[m].metavariable.k = "sym"
                        /\ res.list[m].metavariable.mv
        /\ subState = "threw" =>
              /\ ~AcceptableArguments
              /\ sub = NewSubstitution(NoExpr, NoExpr)

C9_Witness ==
    /\ phase = "substitution"
    /\ subState = "threw"
    /\ arg.kind = "pair" /\ arg.p.mv /\ arg.p.k = "app" /\ arg.e.k = "sym"

(***************************************************************************)
(* C10: S.substitute(X1,...,Xn) leaves S's metavariable alone and makes    *)
(* its expression the result of applying X1, then X2, ..., then Xn to the  *)
(* previous one; it does what the n single calls do, and skipping an Xi    *)
(* whose metavariable is not in the cached name set changes nothing.       *)
(***************************************************************************)
(* X1, ..., Xn applied in turn to the expression of S, none skipped; an Xi
   that is S itself is S as it stands when its turn comes *)
RECURSIVE EachApplied(_, _, _)
EachApplied(M, e, entries) ==
    IF entries = <<>> THEN e
    ELSE LET X == IF Head(entries).self
                  THEN NewSubstitution(M, e)
                  ELSE Head(entries).s
         IN  EachApplied(M, Simultaneous(X.metavariable, X.expression, e), Tail(entries))

RECURSIVE SingleCalls(_, _)
SingleCalls(S, entries) ==
    IF entries = <<>> THEN S
    ELSE SingleCalls(substitute(S, <<Head(entries)>>), Tail(entries))

C10_Substitute ==
    [][res'.op = "substitute" =>
          /\ sub'.metavariable = sub.metavariable
          /\ sub' = SingleCalls(sub, res'.subs)
          /\ sub'.expression = EachApplied(sub.metavariable, sub.expression, res'.subs)]_vars


(***************************************************************************)
(* Expression functions and beta reduction.  An expression function        *)
(* lambda v1 ... vn . body is a binding of the parameter symbols v1..vn;   *)
(* the solver works on de Bruijn encoded constraints, in which no other    *)
(* binding is left.                                                        *)
(***************************************************************************)
MaxFresh == 3
MaxSteps == 12

ParamNames == <<"v1", "v2", "v3", "v4">>
FreshNames == <<"H1", "H2", "H3", "H4", "H5">>

Params(n) == [m \in 1..n |-> Sym(ParamNames[m])]

newEF(n, body) == Bind(Params(n) \o <<body>>)

isAnEF(e) == e.k = "bind"

constantEF(n, e) == newEF(n, e)

projectionEF(n, k) == newEF(n, Sym(ParamNames[k]))

(* lambda v1..vn . h(H1(v1..vn), ..., Hm(v1..vn)) for e = h(e1, ..., em),
   the Hi being the metavariables numbered first + 1 .. first + m *)
imitationEF(n, e, first) ==
    newEF(n, App(<<e.ch[1]>> \o
                 [m \in 1..(Len(e.ch) - 1) |->
                     App(<<EFAHead, MV(FreshNames[first + m])>> \o Params(n))]))

(* the markers of e that point above e get by added to their level *)
RECURSIVE shift(_, _, _)
shift(e, by, depth) ==
    IF isMarker(e)
    THEN IF e.ix[1] >= depth THEN [e EXCEPT !.ix = <<e.ix[1] + by, e.ix[2]>>] ELSE e
    ELSE IF isEncodedBinder(e)
    THEN [e EXCEPT !.ch = <<e.ch[1], shift(e.ch[2], by, depth + 1)>>]
    ELSE [e EXCEPT !.ch = [m \in 1..Len(e.ch) |-> shift(e.ch[m], by, depth)]]

(* body with the free occurrences of the parameters replaced by the
   arguments, an argument put below depth encoded binders being shifted *)
RECURSIVE replaceParameters(_, _, _, _)
replaceParameters(body, names, args, depth) ==
    IF body.k = "sym" /\ ~body.mv /\ ~isMarker(body) /\ IndexOf(names, body.n) > 0
    THEN shift(args[IndexOf(names, body.n)], depth, 0)
    ELSE IF isEncodedBinder(body)
    THEN [body EXCEPT !.ch = <<body.ch[1],
                                replaceParameters(body.ch[2], names, args, depth + 1)>>]
    ELSE IF isAnEF(body) /\ \E m \in 1..Len(names) : names[m] \in BoundNames(body)
    THEN body
    ELSE [body EXCEPT !.ch = [m \in 1..Len(body.ch) |->
                                 replaceParameters(body.ch[m], names, args, depth)]]

(* (@ (lambda v1..vn . body) a1 ... an) *)
isABetaRedex(e) ==
    /\ e.k = "app"
    /\ Len(e.ch) >= 2
    /\ e.ch[1] = EFAHead
    /\ isAnEF(e.ch[2])
    /\ Len(e.ch[2].ch) - 1 = Len(e.ch) - 2

RECURSIVE fullBetaReduce(_)
fullBetaReduce(e) ==
    LET inner == [e EXCEPT !.ch = [m \in 1..Len(e.ch) |-> fullBetaReduce(e.ch[m])]]
    IN  IF isABetaRedex(inner)
        THEN LET ef == inner.ch[2]
                 n == Len(ef.ch) - 1
             IN  fullBetaReduce(
                     replaceParameters(ef.ch[n + 1],
                                       [m \in 1..n |-> ef.ch[m].n],
                                       SubSeq(inner.ch, 3, Len(inner.ch)), 0))
        ELSE inner

(***************************************************************************)
(* The capture guard.  A marker of e that points r binders above e would   *)
(* be captured at an occurrence of the metavariable that sits below more   *)
(* than r binders of a remaining pattern.                                  *)
(***************************************************************************)
RECURSIVE freeIndices(_, _)
freeIndices(e, depth) ==
    IF isMarker(e)
    THEN IF e.ix[1] >= depth THEN {e.ix[1] - depth} ELSE {}
    ELSE UNION {freeIndices(e.ch[m], IF isEncodedBinder(e) /\ m = 2 THEN depth + 1 ELSE depth) :
                   m \in 1..Len(e.ch)}

RECURSIVE occurrenceDepths(_, _, _)
occurrenceDepths(t, m, depth) ==
    IF equals(t, m) THEN {depth}
    ELSE UNION {occurrenceDepths(t.ch[c], m, IF isEncodedBinder(t) /\ c = 2 THEN depth + 1 ELSE depth) :
                   c \in 1..Len(t.ch)}

isFreeToReplace(S, target) ==
    \A r \in freeIndices(S.expression, 0) :
        \A b \in occurrenceDepths(target, S.metavariable, 0) : b <= r

(***************************************************************************)
(* Problem: a list of Constraints in insertion order and the solution      *)
(* accumulated so far, a list of Substitutions.                            *)
(***************************************************************************)
(* every constraint classified, its cache filled *)
classified(cs) == [m \in 1..Len(cs) |-> complexity(cs[m])]

(* the constraint of lowest complexity, the first of them in insertion order *)
lowest(cs) ==
    CHOOSE m \in 1..Len(cs) :
        /\ \A q \in 1..Len(cs) : cs[m].complexity <= cs[q].complexity
        /\ \A q \in 1..(m - 1) : cs[q].complexity > cs[m].complexity

without(cs, m) == SubSeq(cs, 1, m - 1) \o SubSeq(cs, m + 1, Len(cs))

(* S composed into the solution: S applied to every assignment made so
   far, the results beta reduced, and S added *)
plus(solution, S) ==
    [m \in 1..Len(solution) |->
        NewSubstitution(solution[m].metavariable,
                        fullBetaReduce(substitute(solution[m], <<[self |-> FALSE, s |-> S]>>).expression))]
    \o <<S>>

(* S applied to the pattern of every constraint and the patterns beta
   reduced: [threw, list] *)
problemAfterSubstituting(cs, S) ==
    LET after == [m \in 1..Len(cs) |-> afterSubstituting(cs[m], <<S>>)]
        reduced == [m \in 1..Len(cs) |->
                       IF after[m].threw THEN NoExpr
                       ELSE fullBetaReduce(after[m].list[1].pattern)]
    IN  IF \E m \in 1..Len(cs) :
               after[m].threw \/ ~constructorAccepts(reduced[m], cs[m].expression)
        THEN [threw |-> TRUE, list |-> <<>>]
        ELSE [threw |-> FALSE,
              list |-> [m \in 1..Len(cs) |-> NewConstraint(reduced[m], cs[m].expression)]]

(* the problem after the candidate S has been committed, or the end of the
   branch when the capture guard rejects it *)
committed(P, cs, S) ==
    IF \E m \in 1..Len(cs) : ~isFreeToReplace(S, cs[m].pattern)
    THEN [P EXCEPT !.status = "failed", !.constraints = cs]
    ELSE LET r == problemAfterSubstituting(cs, S)
         IN  IF r.threw
             THEN [P EXCEPT !.status = "threw", !.constraints = cs]
             ELSE [P EXCEPT !.constraints = r.list, !.solution = plus(P.solution, S)]

(***************************************************************************)
(* The constraint sets the solver is run on, as lists of pairs (p, e) of   *)
(* named expressions.                                                      *)
(***************************************************************************)
EFA(f, args) == App(<<EFAHead, f>> \o args)
Pair(p, e) == [p |-> p, e |-> e]

ProblemPool ==
    {<< >>,
     <<Pair(App(<<symF, symX>>), App(<<symF, symX>>))>>,
     <<Pair(App(<<symF, mvA, mvB>>), App(<<symF, symX, App(<<symF, symY>>)>>))>>,
     <<Pair(symX, Bind(<<symY, symY>>))>>,
     <<Pair(App(<<symF, symX, symY>>), App(<<symY, symX, symF>>))>>,
     <<Pair(App(<<mvA, symX, mvB>>), App(<<symF, symX, symY>>))>>,
     <<Pair(App(<<symF, mvA, mvA>>), App(<<symF, symX, symX>>))>>,
     <<Pair(App(<<symF, mvA, mvA>>), App(<<symF, symX, symY>>))>>,
     <<Pair(mvA, symX), Pair(App(<<symF, mvA>>), App(<<symF, symY>>))>>,
     <<Pair(App(<<symF, mvB>>), App(<<symF, symY>>)), Pair(mvA, symX), Pair(mvB, symY)>>,
     <<Pair(mvA, mvB)>>,
     <<Pair(Bind(<<mvA, mvA>>), Bind(<<symX, symX>>))>>,
     <<Pair(EFA(mvA, <<symY>>), symY)>>,
     <<Pair(EFA(mvA, <<symY>>), App(<<symF, symY, symY>>))>>,
     <<Pair(EFA(mvA, <<symX>>), symY)>>,
     <<Pair(EFA(mvA, <<mvB>>), App(<<symF, symX>>))>>,
     <<Pair(EFA(mvA, <<symX, symY>>), App(<<symF, symY, symX>>))>>,
     <<Pair(EFA(mvA, <<symX>>), App(<<symF, symX>>)),
       Pair(EFA(mvA, <<symY>>), App(<<symF, symY>>))>>,
     <<Pair(EFA(mvA, <<symX>>), symX), Pair(EFA(mvB, <<symY>>), symY)>>,
     <<Pair(App(<<symF, mvA, EFA(mvA, <<symX>>)>>), App(<<symF, symY, symX>>))>>,
     <<Pair(Bind(<<symX, EFA(mvA, <<symX>>)>>), Bind(<<symY, App(<<symF, symY>>)>>))>>,
     <<Pair(Bind(<<symX, EFA(mvA, <<symX>>)>>),
            Bind(<<symX, Bind(<<symY, App(<<symF, symX, symY>>)>>)>>))>>,
     <<Pair(Bind(<<symX, mvA>>), Bind(<<symY, App(<<symF, symY>>)>>))>>,
     <<Pair(Bind(<<symX, mvA>>), Bind(<<symY, App(<<symF, symX>>)>>))>>,
     <<Pair(App(<<symF, Bind(<<symX, mvA>>), Bind(<<symY, mvA>>)>>),
            App(<<symF, Bind(<<symX, symX>>), Bind(<<symY, symY>>)>>))>>}

(***************************************************************************)
(* The search of the solver, one step of its loop per action; the branches *)
(* of an EFA constraint are the choices among the three EFA actions.       *)
(***************************************************************************)
NotProblem == <<phase, con, conState, sub, subState, tgt, arg, res, search, tree, concepts, IDs, database>>

InitSolve ==
    /\ phase = "solver"
    /\ problem \in {[NoProblem EXCEPT !.status = "new", !.original = o] : o \in ProblemPool}
    /\ arg = [kind |-> "problem", p |-> NoExpr, e |-> NoExpr]
    /\ con = NewConstraint(NoExpr, NoExpr)
    /\ conState = "none"
    /\ sub = NewSubstitution(NoExpr, NoExpr)
    /\ subState = "none"
    /\ tgt = NoExpr
    /\ res = NoRes
    /\ steps = 0
    /\ search = NoSearch
    /\ NoDocument

Searching == phase = "solver" /\ problem.status = "searching" /\ steps < MaxSteps

anyFailure(cs) == \E m \in 1..Len(cs) : cs[m].complexity = 0
allSuccess(cs) == \A m \in 1..Len(cs) : cs[m].complexity = 1

(* the step dispatches on the constraint of lowest complexity *)
Dispatch(class) ==
    /\ Searching
    /\ LET cs == classified(problem.constraints)
       IN  /\ ~anyFailure(cs)
           /\ ~allSuccess(cs)
           /\ IF class = 4
              THEN cs[lowest(cs)].complexity >= 4
              ELSE cs[lowest(cs)].complexity = class

(* a Problem made from a list of constraints, de Bruijn encoded *)
created(P) ==
    LET o == P.original
    IN  IF \E m \in 1..Len(o) : ~constructorAccepts(o[m].p, o[m].e)
        THEN [P EXCEPT !.status = "threw"]
        ELSE [P EXCEPT !.status = "searching",
                       !.constraints = [m \in 1..Len(o) |->
                           deBruijnEncode(NewConstraint(o[m].p, o[m].e))]]

CreateProblem ==
    /\ phase = "solver" /\ problem.status = "new"
    /\ problem' = created(problem)
    /\ steps' = steps + 1
    /\ UNCHANGED NotProblem

(* 1. a constraint of complexity Failure: the branch yields nothing *)
SolveFailure ==
    /\ Searching
    /\ anyFailure(classified(problem.constraints))
    /\ problem' = [problem EXCEPT !.status = "failed",
                                  !.constraints = classified(problem.constraints)]
    /\ steps' = steps + 1
    /\ UNCHANGED NotProblem

(* 2. every constraint is a Success: the accumulated solution is yielded *)
SolveYield ==
    /\ Searching
    /\ ~anyFailure(classified(problem.constraints))
    /\ allSuccess(classified(problem.constraints))
    /\ problem' = [problem EXCEPT !.status = "yielded",
                                  !.constraints = classified(problem.constraints)]
    /\ steps' = steps + 1
    /\ UNCHANGED NotProblem

(* 4. Success: the constraint at index at is dropped *)
afterSuccess(P, at) ==
    [P EXCEPT !.constraints = without(classified(P.constraints), at)]

SolveSuccess ==
    /\ Dispatch(1)
    /\ problem' = afterSuccess(problem, lowest(classified(problem.constraints)))
    /\ steps' = steps + 1
    /\ UNCHANGED NotProblem

(* 4. Instantiation (M, e) *)
afterInstantiation(P, at) ==
    LET cs == classified(P.constraints)
        c == cs[at]
        rest == without(cs, at)
        S == NewSubstitution(c.pattern, c.expression)
        sol == P.solution
    IN  IF \/ ~SubstitutionArgsOK([kind |-> "constraint", p |-> c.pattern, e |-> c.expression])
           \/ \E m \in 1..Len(sol) :
                 /\ sol[m].metavariable = c.pattern
                 /\ ~deBruijnEquals(sol[m].expression, c.expression)
        THEN [P EXCEPT !.status = "failed", !.constraints = cs]
        ELSE committed(P, rest, S)

SolveInstantiation ==
    /\ Dispatch(2)
    /\ problem' = afterInstantiation(problem, lowest(classified(problem.constraints)))
    /\ steps' = steps + 1
    /\ UNCHANGED NotProblem

(* 4. Children: the constraint is replaced by the list of its children *)
afterChildren(P, at) ==
    LET cs == classified(P.constraints)
        r == children(cs[at])
    IN  IF r.threw
        THEN [P EXCEPT !.status = "threw", !.constraints = cs]
        ELSE [P EXCEPT !.constraints = SubSeq(cs, 1, at - 1) \o r.list
                                           \o SubSeq(cs, at + 1, Len(cs))]

SolveChildren ==
    /\ Dispatch(3)
    /\ problem' = afterChildren(problem, lowest(classified(problem.constraints)))
    /\ steps' = steps + 1
    /\ UNCHANGED NotProblem

(* 4. EFA, the Constant candidate: F |-> lambda v1..vn . e *)
afterConstant(P, at) ==
    LET cs == classified(P.constraints)
        c == cs[at]
        n == numChildren(c.pattern) - 2
    IN  committed(P, cs, NewSubstitution(c.pattern.ch[2], constantEF(n, c.expression)))

SolveEFAConstant ==
    /\ Dispatch(4)
    /\ problem' = afterConstant(problem, lowest(classified(problem.constraints)))
    /\ steps' = steps + 1
    /\ UNCHANGED NotProblem

(* 4. EFA, the k-th Projection candidate: F |-> lambda v1..vn . vk *)
projectionsTried(P, at) ==
    LET c == classified(P.constraints)[at]
    IN  IF canBeOnlyConstantEFA(c) THEN {}
        ELSE {k \in 1..(numChildren(c.pattern) - 2) : canBeAProjectionEFA(c, k - 1).value}

afterProjection(P, at, k) ==
    LET cs == classified(P.constraints)
        c == cs[at]
        n == numChildren(c.pattern) - 2
    IN  committed(P, cs, NewSubstitution(c.pattern.ch[2], projectionEF(n, k)))

SolveEFAProjection ==
    /\ Dispatch(4)
    /\ LET at == lowest(classified(problem.constraints))
       IN  \E k \in projectionsTried(problem, at) :
               problem' = afterProjection(problem, at, k)
    /\ steps' = steps + 1
    /\ UNCHANGED NotProblem

(* 4. EFA, the Imitation candidate for e = h(e1, ..., em): the constraint
   is replaced by the children of its reduced form *)
imitationTried(P, at) ==
    LET c == classified(P.constraints)[at]
    IN  /\ ~canBeOnlyConstantEFA(c)
        /\ c.expression.k = "app"
        /\ numChildren(c.expression) - 1 >= 0
        /\ P.fresh + numChildren(c.expression) - 1 <= MaxFresh

afterImitation(P, at) ==
    LET cs == classified(P.constraints)
        c == cs[at]
        n == numChildren(c.pattern) - 2
        m == numChildren(c.expression) - 1
        S == NewSubstitution(c.pattern.ch[2], imitationEF(n, c.expression, P.fresh))
        after == committed(P, cs, S)
    IN  IF after.status # "searching"
        THEN after
        ELSE LET r == children(complexity(after.constraints[at]))
             IN  IF r.threw
                 THEN [after EXCEPT !.status = "threw"]
                 ELSE [after EXCEPT
                         !.fresh = P.fresh + m,
                         !.constraints = SubSeq(after.constraints, 1, at - 1) \o r.list
                             \o SubSeq(after.constraints, at + 1, Len(after.constraints))]

SolveEFAImitation ==
    /\ Dispatch(4)
    /\ imitationTried(problem, lowest(classified(problem.constraints)))
    /\ problem' = afterImitation(problem, lowest(classified(problem.constraints)))
    /\ steps' = steps + 1
    /\ UNCHANGED NotProblem

NextSolve ==
    \/ CreateProblem
    \/ SolveFailure
    \/ SolveYield
    \/ SolveSuccess
    \/ SolveInstantiation
    \/ SolveChildren
    \/ SolveEFAConstant
    \/ SolveEFAProjection
    \/ SolveEFAImitation

SpecSolve == InitSolve /\ [][NextSolve]_vars

(* the assignments of sigma made all at once: nothing inside an inserted
   expression is substituted again *)
RECURSIVE SimultaneousAll(_, _)
SimultaneousAll(sigma, t) ==
    IF \E m \in 1..Len(sigma) : sigma[m].metavariable = t
    THEN sigma[CHOOSE m \in 1..Len(sigma) : sigma[m].metavariable = t].expression
    ELSE [t EXCEPT !.ch = [c \in 1..Len(t.ch) |-> SimultaneousAll(sigma, t.ch[c])]]

Satisfies(sigma, pair) ==
    deBruijnEquals(fullBetaReduce(SimultaneousAll(sigma, encodeExpression(pair.p))),
                   encodeExpression(pair.e))

(***************************************************************************)
(* C1: every solution the solver yields for a constraint set satisfies     *)
(* every original constraint (p,e) of the set: the solution applied at     *)
(* once to p (EFAs beta reduced) is, under the de Bruijn encoding,         *)
(* structurally equal to e.                                                *)
(***************************************************************************)
C1_Soundness ==
    (phase = "solver" /\ problem.status = "yielded") =>
        \A m \in 1..Len(problem.original) :
            Satisfies(problem.solution, problem.original[m])

C1_Witness ==
    /\ phase = "solver" /\ problem.status = "yielded"
    /\ Len(problem.original) >= 2
    /\ problem.fresh >= 1
    /\ \E m \in 1..Len(problem.solution) :
          /\ isAnEF(problem.solution[m].expression)
          /\ problem.solution[m].metavariable = mvA

(***************************************************************************)
(* C11 as stated: Substitution.afterSubstituting(X1,...,Xn) returns a new  *)
(* Substitution with the updated expression and leaves the receiver's      *)
(* metavariable, expression and cached name set the same; no later         *)
(* substitute() on the returned copy, or on a copy(), alters the receiver, *)
(* nor the reverse.                                                        *)
(***************************************************************************)
C11_ReceiverUntouched ==
    [][/\ res'.op = "afterSubstituting" =>
             /\ sub' = sub
             /\ res'.list[1].expression =
                    EachApplied(sub.metavariable, sub.expression,
                                seenFromCopy(sub, res'.subs))
       /\ res'.op = "substituteCopy" => sub' = sub
       /\ res'.op = "substituteReceiver" => res'.list = res.list]_vars

Ended == phase = "solver" /\ problem.status \in {"yielded", "failed", "threw"}

sumOfComplexities(cs) == SumSeq([m \in 1..Len(cs) |-> cs[m].complexity])
numberOfEFAs(cs) == Cardinality({m \in 1..Len(cs) : cs[m].complexity >= 4})

LexLess(a, b) == a[1] < b[1] \/ (a[1] = b[1] /\ a[2] < b[2])

Measure(P) ==
    <<sumOfComplexities(classified(P.constraints)),
      numberOfEFAs(classified(P.constraints))>>

ImitationNotCut ==
    Searching =>
        LET cs == classified(problem.constraints)
        IN  (/\ ~anyFailure(cs) /\ ~allSuccess(cs)
             /\ cs[lowest(cs)].complexity > 4
             /\ cs[lowest(cs)].expression.k = "app")
                => problem.fresh + numChildren(cs[lowest(cs)].expression) - 1 <= MaxFresh

picksAnyLowest(cs) ==
    {m \in 1..Len(cs) : \A q \in 1..Len(cs) : cs[m].complexity <= cs[q].complexity}

(* 3. the constraint picked: the one of lowest complexity, ties broken by
   insertion order *)
picks(cs) == {lowest(cs)}

RECURSIVE ascending(_)
ascending(S) ==
    IF S = {} THEN <<>>
    ELSE LET least == CHOOSE k \in S : \A q \in S : k <= q
         IN  <<least>> \o ascending(S \ {least})

isSearching(P) == P.status = "searching"

(* the branches of the step on the constraint at index at, in order *)
branches(P, at) ==
    LET c == classified(P.constraints)[at]
        ks == ascending(projectionsTried(P, at))
        all == CASE c.complexity = 1 -> <<afterSuccess(P, at)>>
                 [] c.complexity = 2 -> <<afterInstantiation(P, at)>>
                 [] c.complexity = 3 -> <<afterChildren(P, at)>>
                 [] OTHER ->
                        <<afterConstant(P, at)>>
                        \o [m \in 1..Len(ks) |-> afterProjection(P, at, ks[m])]
                        \o (IF imitationTried(P, at) THEN <<afterImitation(P, at)>> ELSE <<>>)
    IN  SelectSeq(all, isSearching)

InitStream ==
    /\ phase = "stream"
    /\ problem \in {[NoProblem EXCEPT !.status = "new", !.original = o] : o \in ProblemPool}
    /\ search = NoSearch
    /\ NoDocument
    /\ steps = 0
    /\ arg = [kind |-> "problem", p |-> NoExpr, e |-> NoExpr]
    /\ con = NewConstraint(NoExpr, NoExpr)
    /\ conState = "none"
    /\ sub = NewSubstitution(NoExpr, NoExpr)
    /\ subState = "none"
    /\ tgt = NoExpr
    /\ res = NoRes

NotSearch == <<phase, con, conState, sub, subState, tgt, arg, res, problem, steps, tree, concepts, IDs, database>>

Streaming == phase = "stream" /\ search.running /\ search.stack # <<>>

(* the solver is started on the constraint set *)
StartRun ==
    /\ phase = "stream" /\ ~search.running /\ search.run < 2
    /\ search' = [search EXCEPT
                     !.run = search.run + 1,
                     !.running = TRUE,
                     !.stream = <<>>,
                     !.stack = SelectSeq(<<created(problem)>>, isSearching)]
    /\ UNCHANGED NotSearch

(* 1. a constraint of complexity Failure: the branch is given up *)
StreamFailure ==
    /\ Streaming
    /\ anyFailure(classified(Head(search.stack).constraints))
    /\ search' = [search EXCEPT !.stack = Tail(search.stack)]
    /\ UNCHANGED NotSearch

(* 2. every constraint is a Success: the solution is yielded *)
StreamYield ==
    /\ Streaming
    /\ ~anyFailure(classified(Head(search.stack).constraints))
    /\ allSuccess(classified(Head(search.stack).constraints))
    /\ search' = [search EXCEPT !.stack = Tail(search.stack),
                                !.stream = Append(search.stream, Head(search.stack).solution)]
    /\ UNCHANGED NotSearch

(* 3. and 4. the step on the constraint picked: its branches replace the
   problem on the stack *)
StreamBranch ==
    /\ Streaming
    /\ ~anyFailure(classified(Head(search.stack).constraints))
    /\ ~allSuccess(classified(Head(search.stack).constraints))
    /\ \E at \in picks(classified(Head(search.stack).constraints)) :
          search' = [search EXCEPT
                        !.stack = branches(Head(search.stack), at) \o Tail(search.stack)]
    /\ UNCHANGED NotSearch

(* the stream is exhausted *)
EndRun ==
    /\ phase = "stream" /\ search.running /\ search.stack = <<>>
    /\ search' = [search EXCEPT !.running = FALSE,
                                !.stream = <<>>,
                                !.streams = Append(search.streams, search.stream)]
    /\ UNCHANGED NotSearch

NextStream ==
    \/ StartRun
    \/ StreamFailure
    \/ StreamYield
    \/ StreamBranch
    \/ EndRun

SpecStream == InitStream /\ [][NextStream]_vars

(* a Solution is an unordered set of Substitutions *)
assignments(solution) ==
    {<<solution[m].metavariable, solution[m].expression>> : m \in 1..Len(solution)}

assignedDifferently(P) ==
    LET cs == classified(P.constraints)
        c == cs[lowest(cs)]
    IN  \E m \in 1..Len(P.solution) :
            /\ P.solution[m].metavariable = c.pattern
            /\ ~deBruijnEquals(P.solution[m].expression, c.expression)

EncoderPool ==
    {symX, symY, mvA,
     App(<<symF, symX>>),
     App(<<symX, Bind(<<symX, symX>>)>>),
     Bind(<<symX, symX>>), Bind(<<symY, symY>>), Bind(<<symX, symY>>), Bind(<<symY, symX>>),
     Bind(<<mvA, mvA>>),
     Bind(<<symX, App(<<symF, symX, symY>>)>>), Bind(<<symY, App(<<symF, symY, symY>>)>>),
     Bind(<<symX, symY, App(<<symF, symX, symY>>)>>),
     Bind(<<symY, symX, App(<<symF, symY, symX>>)>>),
     Bind(<<symX, symY, App(<<symF, symY, symX>>)>>),
     Bind(<<symX, Bind(<<symY, App(<<symF, symX, symY>>)>>)>>),
     Bind(<<symY, Bind(<<symX, App(<<symF, symY, symX>>)>>)>>),
     Bind(<<symX, Bind(<<symX, symX>>)>>), Bind(<<symX, Bind(<<symY, symY>>)>>),
     Bind(<<symX, Bind(<<symY, symX>>)>>),
     Bind(<<symX, symF>>), Bind(<<symX, symY, symF>>)}

InitEncoder ==
    /\ phase = "encoder"
    /\ arg \in [kind : {"pair"}, p : EncoderPool, e : EncoderPool]
    /\ con = NewConstraint(NoExpr, NoExpr)
    /\ conState = "none"
    /\ sub = NewSubstitution(NoExpr, NoExpr)
    /\ subState = "none"
    /\ tgt = NoExpr
    /\ res = NoRes
    /\ problem = NoProblem
    /\ steps = 0
    /\ search = NoSearch
    /\ NoDocument

(* encodeExpression() of both expressions *)
EncodeBoth ==
    /\ phase = "encoder" /\ res.op = "none"
    /\ res' = [Result("encode") EXCEPT !.expr = encodeExpression(arg.p),
                                       !.target = encodeExpression(arg.e)]
    /\ UNCHANGED <<phase, con, conState, sub, subState, tgt, arg, problem, steps, search, tree, concepts, IDs, database>>

(* decodeExpression() of both encodings *)
DecodeBoth ==
    /\ phase = "encoder" /\ res.op = "encode"
    /\ res' = [Result("decode") EXCEPT !.expr = decodeExpression(res.expr),
                                       !.target = decodeExpression(res.target)]
    /\ UNCHANGED <<phase, con, conState, sub, subState, tgt, arg, problem, steps, search, tree, concepts, IDs, database>>

NextEncoder == EncodeBoth \/ DecodeBoth

SpecEncoder == InitEncoder /\ [][NextEncoder]_vars

(* alpha-equivalence: equal up to a consistent renaming of the bound
   symbols; ca and cb list the bound names of the enclosing bindings,
   innermost first *)
RECURSIVE alphaIn(_, _, _, _)
alphaIn(a, b, ca, cb) ==
    CASE a.k = "sym" ->
            /\ b.k = "sym" /\ a.mv = b.mv
            /\ LET la == BinderLevel(a.n, ca)
                   lb == BinderLevel(b.n, cb)
               IN  IF la = 0 \/ lb = 0
                   THEN la = lb /\ a.n = b.n
                   ELSE la = lb /\ IndexOf(ca[la], a.n) = IndexOf(cb[lb], b.n)
      [] a.k = "app" ->
            /\ b.k = "app" /\ Len(a.ch) = Len(b.ch)
            /\ \A m \in 1..Len(a.ch) : alphaIn(a.ch[m], b.ch[m], ca, cb)
      [] a.k = "bind" ->
            /\ b.k = "bind" /\ Len(a.ch) = Len(b.ch)
            /\ alphaIn(a.ch[Len(a.ch)], b.ch[Len(b.ch)],
                       <<[m \in 1..(Len(a.ch) - 1) |-> a.ch[m].n]>> \o ca,
                       <<[m \in 1..(Len(b.ch) - 1) |-> b.ch[m].n]>> \o cb)

alphaEquivalent(a, b) == alphaIn(a, b, <<>>, <<>>)

(***************************************************************************)
(* C15 (as stated): decoding an encoding gives an expression               *)
(* alpha-equivalent to the original, and two expressions are               *)
(* alpha-equivalent exactly when their encodings are structurally equal.   *)
(***************************************************************************)
C15_DecidesAlpha ==
    phase = "encoder" =>
        /\ res.op = "decode" => alphaEquivalent(res.expr, arg.p) /\ alphaEquivalent(res.target, arg.e)
        /\ res.op = "encode" => (alphaEquivalent(arg.p, arg.e) <=> deBruijnEquals(res.expr, res.target))

(***************************************************************************)
(* Environments and their conclusions.  A LogicConcept is a record of its  *)
(* class, its "given" attribute and its children; a descendant is named by *)
(* its address, the sequence of child indices that leads to it.            *)
(***************************************************************************)
MaxChildren == 2

Concept(kind, given, kids) == [kind |-> kind, given |-> given, ch |-> kids]

(* child instanceof Environment: BindingEnvironment is a subclass *)
isAnEnvironment(c) == c.kind \in {"Environment", "BindingEnvironment"}
(* child instanceof Expression || child instanceof Declaration *)
isAnExpressionOrDeclaration(c) == c.kind \in {"Expression", "Declaration"}

(* a conclusions() that descends into given children as well *)
RECURSIVE conclusionsOfGivensToo(_)
conclusionsOfGivensToo(E) ==
    Flatten([m \in 1..Len(E.ch) |->
        LET child == E.ch[m] IN
        IF isAnExpressionOrDeclaration(child) THEN (IF child.given THEN <<>> ELSE << <<m>> >>)
        ELSE IF isAnEnvironment(child)
             THEN [q \in 1..Len(conclusionsOfGivensToo(child)) |->
                      <<m>> \o conclusionsOfGivensToo(child)[q]]
             ELSE <<>>])

(* Environment.conclusions(), as the addresses of the concepts returned *)
RECURSIVE conclusions(_)
conclusions(E) ==
    Flatten([m \in 1..Len(E.ch) |->
        LET child == E.ch[m] IN
        IF child.given THEN <<>>
        ELSE IF isAnExpressionOrDeclaration(child) THEN << <<m>> >>
        ELSE IF isAnEnvironment(child)
             THEN [q \in 1..Len(conclusions(child)) |-> <<m>> \o conclusions(child)[q]]
             ELSE <<>>])

claimExpression == Concept("Expression", FALSE, <<>>)
givenExpression == Concept("Expression", TRUE, <<>>)
claimDeclaration == Concept("Declaration", FALSE, <<claimExpression>>)
givenDeclaration == Concept("Declaration", TRUE, <<claimExpression>>)
compound == Concept("Expression", FALSE, <<claimExpression, claimExpression>>)
Env(given, kids) == Concept("Environment", given, kids)

Leaves == {claimExpression, givenExpression, claimDeclaration, givenDeclaration, compound,
           Concept("LogicConcept", FALSE, <<>>)}

Members ==
    Leaves
    \cup {Env(g, <<c>>) : g \in BOOLEAN, c \in {claimExpression, givenExpression, claimDeclaration, compound}}
    \cup {Env(g, <<Env(h, <<claimExpression>>)>>) : g \in BOOLEAN, h \in BOOLEAN}
    \cup {Env(FALSE, <<>>),
          Env(FALSE, <<claimExpression, claimDeclaration>>),
          Env(FALSE, <<givenExpression, claimExpression>>),
          Concept("BindingEnvironment", FALSE, <<claimExpression>>),
          Concept("LogicConcept", FALSE, <<claimExpression>>),
          Env(FALSE, <<Concept("LogicConcept", FALSE, <<claimExpression>>)>>),
          Env(FALSE, <<Env(FALSE, <<claimExpression, givenExpression>>), claimDeclaration>>),
          Env(FALSE, <<Env(FALSE, <<Env(FALSE, <<compound>>)>>)>>)}

InitEnvironment ==
    /\ phase = "environment"
    /\ tree \in {Env(g, kids) : g \in BOOLEAN, kids \in SeqsUpTo(Members, MaxChildren)}
    /\ arg = [kind |-> "none"]
    /\ con = NewConstraint(NoExpr, NoExpr)
    /\ conState = "none"
    /\ sub = NewSubstitution(NoExpr, NoExpr)
    /\ subState = "none"
    /\ tgt = NoExpr
    /\ res = NoRes
    /\ problem = NoProblem
    /\ steps = 0
    /\ search = NoSearch
    /\ concepts = <<>>
    /\ IDs = <<>>
    /\ database = NoDatabase

(* E.conclusions() *)
Conclusions ==
    /\ phase = "environment" /\ res.op = "none"
    /\ res' = [Result("conclusions") EXCEPT !.list = conclusions(tree)]
    /\ UNCHANGED <<phase, con, conState, sub, subState, tgt, arg, problem, steps, search,
                   tree, concepts, IDs, database>>

NextEnvironment == Conclusions

SpecEnvironment == InitEnvironment /\ [][NextEnvironment]_vars

(* the descendants of E, by address, and the concept at an address *)
RECURSIVE addresses(_)
addresses(E) ==
    UNION {{<<m>>} \cup {<<m>> \o a : a \in addresses(E.ch[m])} : m \in 1..Len(E.ch)}

RECURSIVE conceptAt(_, _)
conceptAt(E, a) == IF a = <<>> THEN E ELSE conceptAt(E.ch[Head(a)], Tail(a))

(* document order: an ancestor comes before its descendants, an earlier
   sibling and all it contains before a later one *)
RECURSIVE inDocumentOrder(_, _)
inDocumentOrder(a, b) ==
    IF a = <<>> THEN b # <<>>
    ELSE IF b = <<>> THEN FALSE
    ELSE IF Head(a) = Head(b) THEN inDocumentOrder(Tail(a), Tail(b))
    ELSE Head(a) < Head(b)

(***************************************************************************)
(* C16: E.conclusions() returns, in document order and once each, exactly  *)
(* the Expression and Declaration descendants of E that are not given and  *)
(* whose ancestors strictly below E are all Environments that are not      *)
(* given; so no Environment, nothing inside a given child and no proper    *)
(* sub-expression of a returned expression is returned.                    *)
(***************************************************************************)
isAClaimedConclusion(E, a) ==
    /\ isAnExpressionOrDeclaration(conceptAt(E, a))
    /\ ~conceptAt(E, a).given
    /\ \A m \in 1..(Len(a) - 1) :
          LET ancestor == conceptAt(E, SubSeq(a, 1, m))
          IN  isAnEnvironment(ancestor) /\ ~ancestor.given

C16_Conclusions ==
    (phase = "environment" /\ res.op = "conclusions") =>
        /\ {res.list[m] : m \in 1..Len(res.list)} = {a \in addresses(tree) : isAClaimedConclusion(tree, a)}
        /\ \A m, q \in 1..Len(res.list) : m < q => inDocumentOrder(res.list[m], res.list[q])
        /\ \A m, q \in 1..Len(res.list) :
              /\ ~isAnEnvironment(conceptAt(tree, res.list[m]))
              /\ m # q => ~(\E rest \in addresses(conceptAt(tree, res.list[m])) :
                                res.list[q] = res.list[m] \o rest)

C16_Witness ==
    /\ phase = "environment" /\ res.op = "conclusions"
    /\ Len(res.list) = 2
    /\ \E a \in addresses(tree) : conceptAt(tree, a).given /\ addresses(conceptAt(tree, a)) # {}
    /\ \E m \in 1..Len(res.list) : Len(res.list[m]) = 3
    /\ \E m \in 1..Len(res.list) : addresses(conceptAt(tree, res.list[m])) # {}

(***************************************************************************)
(* Connections among MathConcepts.  A connection is data in the attributes *)
(* of its two ends: "_conn target C" (the target's ID) and "_conn data C"  *)
(* on the source, "_conn source C" (the source's ID) on the target;        *)
(* Connection.IDs maps C to the source.  A MathConcept is named by its ID; *)
(* MathConcept.instanceWithID() finds it only while its ID is tracked.     *)
(***************************************************************************)
Objects == {"m1", "m2", "m3"}
ConnectionIDs == {"c1", "c2"}
Keys == {"k", "j"}
Undefined == ""
(* the concepts whose IDs get untracked and tracked again *)
Untracked == {"m3"}

(* the data argument of create(): null, or an object of key-value pairs *)
Null == [def |-> FALSE, val |-> {}]
Object(pairs) == [def |-> TRUE, val |-> pairs]
DataPool == {Null, Object({<<"k", "v">>})}

NewConcept == [tracked |-> TRUE,
               target |-> [c \in ConnectionIDs |-> Undefined],
               source |-> [c \in ConnectionIDs |-> Undefined],
               data |-> [c \in ConnectionIDs |-> Null]]

(* MathConcept.instanceWithID( id ), concept.ID(), concept.idIsTracked() *)
instanceWithID(cs, id) == IF id \in Objects /\ cs[id].tracked THEN id ELSE Undefined
ID(o) == o
idIsTracked(cs, o) == cs[o].tracked

(* Connection.IDs.has( id ); withID( id ) is a Connection exactly then *)
withID(st, c) == st.IDs[c] # Undefined

(* connection.source(), connection.target() *)
source(st, c) == st.IDs[c]
target(st, c) ==
    IF source(st, c) = Undefined THEN Undefined
    ELSE LET targetID == st.concepts[source(st, c)].target[c]
         IN  IF targetID = Undefined THEN Undefined ELSE instanceWithID(st.concepts, targetID)

(* connection._getData(): undefined without a source, else an object *)
getData(st, c) ==
    IF source(st, c) = Undefined THEN [undefined |-> TRUE, val |-> {}]
    ELSE [undefined |-> FALSE, val |-> st.concepts[source(st, c)].data[c].val]

(* connection._setData( json ) *)
setData(st, c, json) ==
    IF source(st, c) = Undefined THEN st
    ELSE [st EXCEPT !.concepts[source(st, c)].data[c] = Object(json)]

(* connection.attr( attributes ): the pairs given override the data there *)
attr(st, c, attributes) ==
    setData(st, c, {p \in getData(st, c).val : \A q \in attributes : q[1] # p[1]} \cup attributes)

(* connection.hasAttribute( key ): [threw, value] *)
hasAttribute(st, c, key) ==
    IF getData(st, c).undefined
    THEN [threw |-> TRUE, value |-> FALSE]
    ELSE [threw |-> FALSE, value |-> \E p \in getData(st, c).val : p[1] = key]

(* a create() that does not look whether the ID is in use *)
createOverExisting(st, c, sourceID, targetID, data) ==
    LET s == instanceWithID(st.concepts, sourceID)
        t == instanceWithID(st.concepts, targetID)
    IN  IF s = Undefined \/ t = Undefined THEN [st |-> st, ret |-> FALSE]
        ELSE LET st1 == [st EXCEPT !.concepts[s].target[c] = targetID]
                 st2 == [st1 EXCEPT !.concepts[t].source[c] = sourceID]
                 st3 == [st2 EXCEPT !.IDs[c] = s]
             IN  [st |-> IF data.def THEN attr(st3, c, data.val) ELSE st3, ret |-> TRUE]

(* Connection.create( connectionID, sourceID, targetID, data ): the state
   afterwards and whether a Connection (not false) was returned *)
create(st, c, sourceID, targetID, data) ==
    IF withID(st, c) THEN [st |-> st, ret |-> FALSE]
    ELSE LET s == instanceWithID(st.concepts, sourceID) IN
         IF s = Undefined THEN [st |-> st, ret |-> FALSE]
         ELSE LET t == instanceWithID(st.concepts, targetID) IN
              IF t = Undefined THEN [st |-> st, ret |-> FALSE]
              ELSE LET st1 == [st EXCEPT !.concepts[s].target[c] = targetID]
                       st2 == [st1 EXCEPT !.concepts[t].source[c] = sourceID]
                       st3 == [st2 EXCEPT !.IDs[c] = s]
                   IN  [st |-> IF data.def THEN attr(st3, c, data.val) ELSE st3,
                        ret |-> TRUE]

(* a remove() that leaves the ID in Connection.IDs *)
removeKeepingID(st, c) ==
    LET s == source(st, c)
        t == target(st, c)
        st1 == IF s # Undefined
               THEN [st EXCEPT !.concepts[s].target[c] = Undefined,
                               !.concepts[s].data[c] = Null]
               ELSE st
        st2 == IF t # Undefined THEN [st1 EXCEPT !.concepts[t].source[c] = Undefined] ELSE st1
    IN  [st |-> st2, ret |-> s # Undefined /\ t # Undefined]

(* connection.remove() *)
remove(st, c) ==
    LET s == source(st, c)
        t == target(st, c)
        st1 == IF s # Undefined
               THEN [st EXCEPT !.concepts[s].target[c] = Undefined,
                               !.concepts[s].data[c] = Null]
               ELSE st
        st2 == IF t # Undefined THEN [st1 EXCEPT !.concepts[t].source[c] = Undefined] ELSE st1
    IN  [st |-> [st2 EXCEPT !.IDs[c] = Undefined], ret |-> s # Undefined /\ t # Undefined]

(* concept.getConnectionIDs(): the IDs in its "_conn source" and
   "_conn target" attributes *)
getConnectionIDs(cs, o) ==
    {c \in ConnectionIDs : cs[o].source[c] # Undefined \/ cs[o].target[c] # Undefined}

(* the orders in which getConnections() can list them *)
Orders(S) == {o \in [1..Cardinality(S) -> S] : \A m, q \in 1..Cardinality(S) : m # q => o[m] # o[q]}

(* the loop of transferConnections() over the connections left to do:
   ret is "true", "false" or "threw" *)
RECURSIVE transferEach(_, _, _, _)
transferEach(st, todo, giver, receiver) ==
    IF todo = <<>> THEN [st |-> st, ret |-> "true"]
    ELSE LET c == Head(todo) IN
         IF ~withID(st, c) THEN [st |-> st, ret |-> "threw"]
         ELSE IF source(st, c) = Undefined \/ target(st, c) = Undefined
              THEN transferEach(st, Tail(todo), giver, receiver)
         ELSE LET s == IF source(st, c) = giver THEN receiver ELSE source(st, c)
                  t == IF target(st, c) = giver THEN receiver ELSE target(st, c)
                  data == IF getData(st, c).val = {} THEN Null ELSE Object(getData(st, c).val)
                  deleted == remove(st, c)
                  recreated == create(deleted.st, c, ID(s), ID(t), data)
              IN  IF ~deleted.ret THEN [st |-> deleted.st, ret |-> "false"]
                  ELSE IF ~recreated.ret THEN [st |-> recreated.st, ret |-> "false"]
                  ELSE transferEach(recreated.st, Tail(todo), giver, receiver)

(* a transferConnections() that does not look at the receiver's ID *)
transferConnectionsUnchecked(st, giver, receiver, order) ==
    transferEach(st, order, giver, receiver)

(* Connection.transferConnections( giver, receiver ) *)
transferConnections(st, giver, receiver, order) ==
    IF ~idIsTracked(st.concepts, receiver) THEN [st |-> st, ret |-> "false"]
    ELSE transferEach(st, order, giver, receiver)

State == [concepts |-> concepts, IDs |-> IDs]

InitConnection ==
    /\ phase = "connection"
    /\ concepts = [o \in Objects |-> NewConcept]
    /\ IDs = [c \in ConnectionIDs |-> Undefined]
    /\ tree = NoTree
    /\ database = NoDatabase
    /\ arg = [kind |-> "none"]
    /\ con = NewConstraint(NoExpr, NoExpr)
    /\ conState = "none"
    /\ sub = NewSubstitution(NoExpr, NoExpr)
    /\ subState = "none"
    /\ tgt = NoExpr
    /\ res = NoRes
    /\ problem = NoProblem
    /\ steps = 0
    /\ search = NoSearch

NotConnection == <<phase, con, conState, sub, subState, tgt, arg, problem, steps, search, tree, database>>

(* MathConcept.trackIDs() / untrackIDs() of one concept *)
TrackIDs(o) ==
    /\ phase = "connection" /\ res.op = "none" /\ ~concepts[o].tracked
    /\ concepts' = [concepts EXCEPT ![o].tracked = TRUE]
    /\ res' = NoRes
    /\ UNCHANGED <<IDs, NotConnection>>

UntrackIDs(o) ==
    /\ phase = "connection" /\ res.op = "none" /\ concepts[o].tracked
    /\ concepts' = [concepts EXCEPT ![o].tracked = FALSE]
    /\ res' = NoRes
    /\ UNCHANGED <<IDs, NotConnection>>

Create(c, sourceID, targetID, data) ==
    /\ phase = "connection" /\ res.op = "none"
    /\ LET r == create(State, c, sourceID, targetID, data)
       IN  /\ concepts' = r.st.concepts
           /\ IDs' = r.st.IDs
           /\ res' = [Result("create") EXCEPT !.bool = r.ret]
    /\ UNCHANGED NotConnection

(* remove() of a Connection instance with this ID, made by withID() or by
   the constructor *)
Remove(c) ==
    /\ phase = "connection" /\ res.op = "none"
    /\ LET r == remove(State, c)
       IN  /\ concepts' = r.st.concepts
           /\ IDs' = r.st.IDs
           /\ res' = [Result("remove") EXCEPT !.bool = r.ret]
    /\ UNCHANGED NotConnection

TransferConnections(giver, receiver, order) ==
    /\ phase = "connection" /\ res.op = "none"
    /\ LET r == transferConnections(State, giver, receiver, order)
       IN  /\ concepts' = r.st.concepts
           /\ IDs' = r.st.IDs
           /\ res' = [Result("transferConnections") EXCEPT !.bool = (r.ret = "true"),
                                                            !.threw = (r.ret = "threw"),
                                                            !.names = {giver, receiver}]
    /\ UNCHANGED NotConnection

HasAttribute(c, key) ==
    /\ phase = "connection" /\ res.op = "none"
    /\ LET r == hasAttribute(State, c, key)
       IN  res' = [Result("hasAttribute") EXCEPT !.bool = r.value, !.threw = r.threw]
    /\ UNCHANGED <<concepts, IDs, NotConnection>>

(* the caller has taken the result of the last call *)
Returned ==
    /\ phase = "connection" /\ res.op # "none"
    /\ res' = NoRes
    /\ UNCHANGED <<concepts, IDs, NotConnection>>

NextConnection ==
    \/ Returned
    \/ \E o \in Untracked : TrackIDs(o)
    \/ \E o \in Untracked : UntrackIDs(o)
    \/ \E c \in ConnectionIDs, s, t \in Objects, d \in DataPool : Create(c, s, t, d)
    \/ \E c \in ConnectionIDs : Remove(c)
    \/ \E g, r \in Objects : \E order \in Orders(getConnectionIDs(concepts, g)) :
          TransferConnections(g, r, order)
    \/ \E c \in ConnectionIDs, key \in Keys : HasAttribute(c, key)

SpecConnection == InitConnection /\ [][NextConnection]_vars

(***************************************************************************)
(* C17: create(C, sourceID, targetID, data) returns false and changes no   *)
(* attribute and not Connection.IDs when C is in Connection.IDs or no      *)
(* MathConcept has sourceID or none has targetID; otherwise it writes      *)
(* "_conn target C" = targetID on the source, "_conn source C" = sourceID  *)
(* on the target, maps C to the source, stores the data given and returns  *)
(* a Connection.                                                           *)
(***************************************************************************)
createdAsClaimed(c, sourceID, targetID, data) ==
    IF \/ withID(State, c)
       \/ instanceWithID(concepts, sourceID) = Undefined
       \/ instanceWithID(concepts, targetID) = Undefined
    THEN ~res'.bool /\ concepts' = concepts /\ IDs' = IDs
    ELSE /\ res'.bool
         /\ concepts'[sourceID].target[c] = targetID
         /\ concepts'[targetID].source[c] = sourceID
         /\ IDs'[c] = sourceID
         /\ data.def => concepts'[sourceID].data[c] = data

C17_Create ==
    [][res'.op = "create" =>
          \A c \in ConnectionIDs, s, t \in Objects, d \in DataPool :
              Create(c, s, t, d) => createdAsClaimed(c, s, t, d)]_vars

C17_Witness ==
    /\ phase = "connection" /\ res.op = "create" /\ res.bool
    /\ \E c \in ConnectionIDs :
          /\ IDs[c] = "m1" /\ concepts["m1"].target[c] = "m1" /\ concepts["m1"].data[c].def
    /\ \E c \in ConnectionIDs : IDs[c] = "m2" /\ concepts["m2"].target[c] = "m3"

(***************************************************************************)
(* C18: remove() returns true exactly when the connection has a source and *)
(* a target; whatever it returns, afterwards the ID is not in              *)
(* Connection.IDs, so that withID() is undefined and the ID can be created *)
(* again, the source has no "_conn target" and no "_conn data" attribute   *)
(* for the ID and the target no "_conn source" attribute for it.           *)
(***************************************************************************)
removedAsClaimed(c) ==
    LET s == source(State, c)
        t == target(State, c)
        after == [concepts |-> concepts', IDs |-> IDs']
    IN  /\ res'.bool <=> (s # Undefined /\ t # Undefined)
        /\ ~withID(after, c)
        /\ \A a, b \in Objects :
              (idIsTracked(concepts', a) /\ idIsTracked(concepts', b))
                  => create(after, c, ID(a), ID(b), Null).ret
        /\ s # Undefined => concepts'[s].target[c] = Undefined /\ ~concepts'[s].data[c].def
        /\ t # Undefined => concepts'[t].source[c] = Undefined

hadAsEnd(st, c, o) == withID(st, c) /\ (source(st, c) = o \/ target(st, c) = o)

movedTo(c, giver, receiver) ==
    LET after == [concepts |-> concepts', IDs |-> IDs']
        swap(o) == IF o = giver THEN receiver ELSE o
    IN  /\ withID(after, c)
        /\ source(after, c) = swap(source(State, c))
        /\ target(after, c) = swap(target(State, c))
        /\ getData(after, c) = getData(State, c)

noEndOf(c, o) == ~hadAsEnd([concepts |-> concepts', IDs |-> IDs'], c, o)

transferredAsClaimed(giver, receiver) ==
    /\ ~idIsTracked(concepts, receiver) =>
          ~res'.bool /\ ~res'.threw /\ concepts' = concepts /\ IDs' = IDs
    /\ res'.bool =>
          /\ \A c \in ConnectionIDs : hadAsEnd(State, c, giver) => movedTo(c, giver, receiver)
          /\ \A c \in ConnectionIDs : noEndOf(c, giver)

C19_TransferConnections ==
    [][res'.op = "transferConnections" =>
          \A g, r \in Objects : \A order \in Orders(getConnectionIDs(concepts, g)) :
              TransferConnections(g, r, order) => transferredAsClaimed(g, r)]_vars

(***************************************************************************)
(* C19 (amended): transferConnections(giver, receiver) returns false and   *)
(* changes nothing when the receiver's ID is not tracked; when it returns  *)
(* true, every connection that had the giver as source or target and had   *)
(* both a source and a target exists afterwards under the same ID, with    *)
(* the same data, the receiver in the giver's place and the other end      *)
(* unchanged, and, unless the giver is the receiver, no longer has the     *)
(* giver as an end; a connection without a target is passed over and stays *)
(* as it was.                                                              *)
(***************************************************************************)
hasBothEnds(st, c) == withID(st, c) /\ target(st, c) # Undefined

transferredAmended(giver, receiver) ==
    /\ ~idIsTracked(concepts, receiver) =>
          ~res'.bool /\ ~res'.threw /\ concepts' = concepts /\ IDs' = IDs
    /\ res'.bool =>
          \A c \in ConnectionIDs :
              hadAsEnd(State, c, giver) =>
                  IF hasBothEnds(State, c)
                  THEN movedTo(c, giver, receiver) /\ (giver # receiver => noEndOf(c, giver))
                  ELSE /\ IDs'[c] = IDs[c]
                       /\ \A o \in Objects : /\ concepts'[o].target[c] = concepts[o].target[c]
                                             /\ concepts'[o].data[c] = concepts[o].data[c]

C19_Transferred ==
    [][res'.op = "transferConnections" =>
          \A g, r \in Objects : \A order \in Orders(getConnectionIDs(concepts, g)) :
              TransferConnections(g, r, order) => transferredAmended(g, r)]_vars

C19_Witness ==
    /\ phase = "connection" /\ res.op = "transferConnections" /\ res.bool
    /\ res.names = {"m1", "m2"}
    /\ \E c, d \in ConnectionIDs :
          /\ IDs[c] = "m1" /\ concepts["m1"].target[c] = "m3" /\ ~concepts["m3"].tracked
          /\ IDs[d] = "m2" /\ concepts["m2"].target[d] = "m2" /\ concepts["m2"].data[d].def
          /\ concepts["m1"].source[d] = Undefined /\ concepts["m1"].target[d] = Undefined

(***************************************************************************)
(* C20: hasAttribute(key) returns true when the key is in the data of the  *)
(* connection, and false when it is not or when the lookup has any other   *)
(* problem, such as an ID that is not in Connection.IDs; it never raises   *)
(* an error.                                                               *)
(***************************************************************************)
C20_HasAttribute ==
    [][res'.op = "hasAttribute" =>
          \A c \in ConnectionIDs, key \in Keys :
              HasAttribute(c, key) =>
                  /\ ~res'.threw
                  /\ res'.bool <=> /\ source(State, c) # Undefined
                                   /\ \E p \in concepts[source(State, c)].data[c].val : p[1] = key]_vars

(***************************************************************************)
(* The testing database.  An entry has a filename (its key), its code and, *)
(* once getObjects() has parsed it, the cached result.  Code is the        *)
(* sequence of what the file holds: objects, comments (or whitespace) and  *)
(* text that does not parse.  Every parse makes a new array or a new error *)
(* object, named by the number of the parse.                               *)
(***************************************************************************)
DatabaseKeys == {"a.putdown", "b.smackdown"}
NotAKey == "c.putdown"
CodePool == {<<>>, <<"comment">>, <<"object">>, <<"object", "comment", "object">>,
             <<"object", "bad">>}

NotParsed == [kind |-> "undefined", id |-> 0, length |-> 0]

(* LogicConcept.fromPutdown( code ) / MathConcept.fromSmackdown( code ) as
   the parse number n: an array of the objects, or a parsing error *)
fromPutdown(code, n) ==
    IF \E m \in 1..Len(code) : code[m] = "bad"
    THEN [kind |-> "error", id |-> n, length |-> 0]
    ELSE [kind |-> "array", id |-> n,
          length |-> Cardinality({m \in 1..Len(code) : code[m] = "object"})]

(* getEntryAttribute( key, 'parsed' ) and ( key, 'content' ) *)
getParsedResult(db, key) == IF key \in DOMAIN db.entries THEN db.entries[key].parsed ELSE NotParsed
getCode(db, key) == IF key \in DOMAIN db.entries THEN db.entries[key].content ELSE <<>>
hasCode(db, key) == key \in DOMAIN db.entries /\ db.entries[key].content # <<>>

(* setEntryAttribute( key, 'parsed', result ) *)
setParsedResult(db, key, result) ==
    IF key \in DOMAIN db.entries
    THEN [db EXCEPT !.entries[key].parsed = result]
    ELSE db

(* a getObjects() that never looks into the cache *)
getObjectsParsingAgain(db, key) ==
    IF ~hasCode(db, key) THEN [db |-> db, threw |-> FALSE, value |-> NotParsed]
    ELSE LET result == fromPutdown(getCode(db, key), db.parses + 1)
             parsed == [db EXCEPT !.parses = db.parses + 1]
         IN  [db |-> setParsedResult(parsed, key, result),
              threw |-> result.kind = "error", value |-> result]

(* getObjects( key ): the database afterwards, whether it threw, and the
   value returned or thrown *)
getObjects(db, key) ==
    LET cached == getParsedResult(db, key) IN
    IF cached.kind = "array" THEN [db |-> db, threw |-> FALSE, value |-> cached]
    ELSE IF cached.kind = "error" THEN [db |-> db, threw |-> TRUE, value |-> cached]
    ELSE IF ~hasCode(db, key) THEN [db |-> db, threw |-> FALSE, value |-> NotParsed]
    ELSE LET result == fromPutdown(getCode(db, key), db.parses + 1)
             parsed == [db EXCEPT !.parses = db.parses + 1]
         IN  [db |-> setParsedResult(parsed, key, result),
              threw |-> result.kind = "error", value |-> result]

(* getObject( key ): reading .length of undefined is a TypeError *)
getObject(db, key) ==
    LET all == getObjects(db, key) IN
    IF all.threw THEN all
    ELSE IF all.value.kind = "undefined"
         THEN [db |-> all.db, threw |-> TRUE, value |-> [kind |-> "TypeError", id |-> 0, length |-> 0]]
    ELSE IF all.value.length # 1
         THEN [db |-> all.db, threw |-> TRUE,
               value |-> [kind |-> "Expected 1 LogicConcept", id |-> 0, length |-> all.value.length]]
    ELSE [db |-> all.db, threw |-> FALSE, value |-> [all.value EXCEPT !.kind = "object"]]

InitDatabase ==
    /\ phase = "database"
    /\ database \in {[entries |-> [k \in DatabaseKeys |-> [content |-> code[k], parsed |-> NotParsed]],
                      parses |-> 0,
                      seen |-> [k \in DatabaseKeys \cup {NotAKey} |-> NotParsed]] :
                        code \in [DatabaseKeys -> CodePool]}
    /\ tree = NoTree
    /\ concepts = <<>>
    /\ IDs = <<>>
    /\ arg = [kind |-> "none"]
    /\ con = NewConstraint(NoExpr, NoExpr)
    /\ conState = "none"
    /\ sub = NewSubstitution(NoExpr, NoExpr)
    /\ subState = "none"
    /\ tgt = NoExpr
    /\ res = NoRes
    /\ problem = NoProblem
    /\ steps = 0
    /\ search = NoSearch

NotDatabase == <<phase, con, conState, sub, subState, tgt, arg, problem, steps, search,
                 tree, concepts, IDs>>

(* database.seen[key] is the outcome of the first call of getObjects() for
   the key that returned an array or threw *)
seenAfter(db, key, value) ==
    IF db.seen[key].kind = "undefined" /\ value.kind \in {"array", "error"}
    THEN [db EXCEPT !.seen[key] = value]
    ELSE db

GetObjects(key) ==
    /\ phase = "database"
    /\ LET r == getObjects(database, key)
       IN  /\ database' = seenAfter(r.db, key, r.value)
           /\ res' = [op |-> "getObjects", key |-> key, threw |-> r.threw, value |-> r.value]
    /\ UNCHANGED NotDatabase

GetObject(key) ==
    /\ phase = "database"
    /\ LET r == getObject(database, key)
       IN  /\ database' = seenAfter(r.db, key, r.value)
           /\ res' = [op |-> "getObject", key |-> key, threw |-> r.threw, value |-> r.value]
    /\ UNCHANGED NotDatabase

NextDatabase ==
    \/ \E key \in DatabaseKeys \cup {NotAKey} : GetObjects(key)
    \/ \E key \in DatabaseKeys \cup {NotAKey} : GetObject(key)

SpecDatabase == InitDatabase /\ [][NextDatabase]_vars

(***************************************************************************)
(* C21: once getObjects(key) has returned an array, every later call for   *)
(* the key returns that same array without parsing again; once it has      *)
(* thrown a parsing error, every later call throws that same error object  *)
(* without parsing again.                                                  *)
(***************************************************************************)
C21_Cached ==
    [][\A key \in DatabaseKeys \cup {NotAKey} :
          (GetObjects(key) /\ database.seen[key].kind # "undefined") =>
              /\ res'.value = database.seen[key]
              /\ res'.threw = (database.seen[key].kind = "error")
              /\ database'.parses = database.parses]_vars

C21_Witness ==
    /\ phase = "database" /\ res.op = "getObjects" /\ res.threw
    /\ database.parses = 2
    /\ res.value.id = 1
    /\ \E key \in DatabaseKeys : database.seen[key].kind = "array" /\ database.seen[key].id = 2

(***************************************************************************)
(* C22: getObjects(key) returns undefined exactly when the key is not a    *)
(* key of the database; for a key whose code holds no object (comments and *)
(* whitespace only, or nothing at all) it returns an empty array; and      *)
(* getObject(key) throws 'Expected 1 LogicConcept' whenever the parsed     *)
(* array does not have length one.                                         *)
(***************************************************************************)
holdsNoObject(code) == \A m \in 1..Len(code) : code[m] = "comment"

C22_Undefined ==
    phase = "database" =>
        /\ res.op = "getObjects" =>
              /\ (~res.threw /\ res.value.kind = "undefined") <=> res.key \notin DatabaseKeys
              /\ (res.key \in DatabaseKeys /\ holdsNoObject(getCode(database, res.key)))
                    => ~res.threw /\ res.value.kind = "array" /\ res.value.length = 0
        /\ (res.op = "getObject" /\ getParsedResult(database, res.key).kind = "array"
               /\ getParsedResult(database, res.key).length # 1)
              => res.threw /\ res.value.kind = "Expected 1 LogicConcept"

(***************************************************************************)
(* The floating point arithmetic validation tool.  A value is a number, a  *)
(* boolean, or "other": a number that is not an integer (a fraction, an    *)
(* infinity, NaN), which the model does not compute any further.           *)
(***************************************************************************)
MaxOperands == 3

Num(n) == [t |-> "number", v |-> n]
Boolean(b) == [t |-> "boolean", v |-> IF b THEN 1 ELSE 0]
Other == [t |-> "other", v |-> 0]
True == Boolean(TRUE)

(* Number( expression.text() ): the texts that are numerals, and the empty
   text, which Number() turns into 0; everything else is NaN *)
Numerals == [text \in {"", "1", "2", "3", "5", "6", "7", "10"} |->
                CASE text = "" -> 0 [] text = "1" -> 1 [] text = "2" -> 2 [] text = "3" -> 3
                  [] text = "5" -> 5 [] text = "6" -> 6 [] text = "7" -> 7 [] text = "10" -> 10]
isNaN(text) == text \notin DOMAIN Numerals

(* arithmeticOperatorsInJS: operator -> the arities of its functions *)
arithmeticOperatorsInJS ==
    [op \in {"+", "-", "*", "/", "%", "^", "=", ">", "<", ">=", "<="} |->
        IF op = "-" THEN {1, 2} ELSE {2}]

RECURSIVE pow(_, _)
pow(x, y) == IF y = 0 THEN 1 ELSE x * pow(x, y - 1)

(* toApply.apply( null, operands ): booleans count as 0 and 1 in arithmetic
   and in comparisons, === tells them from numbers *)
applyOperator(op, xs) ==
    IF \E m \in 1..Len(xs) : xs[m].t = "other"
    THEN (IF op \in {"=", ">", "<", ">=", "<="} THEN Boolean(FALSE) ELSE Other)
    ELSE LET x == xs[1].v
             y == xs[Len(xs)].v
         IN  CASE op = "+" -> Num(x + y)
               [] op = "-" -> IF Len(xs) = 1 THEN Num(0 - x) ELSE Num(x - y)
               [] op = "*" -> Num(x * y)
               [] op = "/" -> IF x >= 0 /\ y > 0 /\ x % y = 0 THEN Num(x \div y) ELSE Other
               [] op = "%" -> IF x >= 0 /\ y > 0 THEN Num(x % y) ELSE Other
               [] op = "^" -> IF y >= 0 THEN Num(pow(x, y)) ELSE Other
               [] op = "=" -> Boolean(xs[1] = xs[2])
               [] op = ">" -> Boolean(x > y)
               [] op = "<" -> Boolean(x < y)
               [] op = ">=" -> Boolean(x >= y)
               [] op = "<=" -> Boolean(x <= y)

(* what is not an Expression at all *)
isAnExpression(e) == "k" \in DOMAIN e

(* runArithmeticInJS( expression ): [threw, message, value] *)
RECURSIVE runArithmeticInJS(_)
runArithmeticInJS(e) ==
    LET Throw(message) == [threw |-> TRUE, message |-> message, value |-> Other]
    IN  IF isAnExpression(e) /\ e.k = "sym"
        THEN (IF isNaN(e.n) THEN Throw("Invalid number") ELSE [threw |-> FALSE, message |-> "", value |-> Num(Numerals[e.n])])
        ELSE IF ~isAnExpression(e) THEN Throw("Arithmetic supports only Expressions and Symbols")
        ELSE IF Len(e.ch) = 0 \/ e.ch[1].k # "sym" THEN Throw("Operators must be symbols")
        ELSE IF e.ch[1].n \notin DOMAIN arithmeticOperatorsInJS THEN Throw("Not a supported operator")
        ELSE IF (Len(e.ch) - 1) \notin arithmeticOperatorsInJS[e.ch[1].n]
             THEN Throw("Wrong number of arguments")
        ELSE LET operands == [m \in 1..(Len(e.ch) - 1) |-> runArithmeticInJS(e.ch[m + 1])]
             IN  IF \E m \in 1..Len(operands) : operands[m].threw
                 THEN operands[CHOOSE m \in 1..Len(operands) :
                                   operands[m].threw /\ \A q \in 1..(m - 1) : ~operands[q].threw]
                 ELSE [threw |-> FALSE, message |-> "",
                       value |-> applyOperator(e.ch[1].n, [m \in 1..Len(operands) |-> operands[m].value])]

(* an arithmeticValidator() without its try and catch *)
arithmeticValidatorNotCatching(expression) ==
    LET r == runArithmeticInJS(expression)
    IN  [threw |-> r.threw,
         result |-> IF ~r.threw /\ r.value = True THEN "valid" ELSE "invalid",
         reason |-> "JavaScript floating point check",
         message |-> ""]

(* arithmeticValidator( target ) *)
arithmeticValidator(expression) ==
    LET r == runArithmeticInJS(expression)
    IN  IF r.threw
        THEN [threw |-> FALSE, result |-> "invalid", reason |-> "Invalid expression structure",
              message |-> r.message]
        ELSE [threw |-> FALSE,
              result |-> IF r.value = True THEN "valid" ELSE "invalid",
              reason |-> "JavaScript floating point check",
              message |-> ""]

Atoms == {Sym("1"), Sym("2"), Sym("x"), Sym("")}
Heads == {Sym(op) : op \in DOMAIN arithmeticOperatorsInJS} \cup {symF}

ArithmeticPool ==
    Atoms
    \cup {App(<<h>> \o xs) : h \in Heads, xs \in SeqsUpTo(Atoms, MaxOperands)}
    \cup {Env(FALSE, <<>>),
          App(<<App(<<Sym("+"), Sym("1")>>), Sym("1"), Sym("2")>>),
          App(<<Sym("="), App(<<Sym("+"), Sym("2"), Sym("5")>>), App(<<Sym("-"), Sym("10"), Sym("3")>>)>>),
          App(<<Sym("="), App(<<Sym("/"), Sym("5"), Sym("2")>>), App(<<Sym("/"), Sym("2"), Sym("5")>>)>>),
          App(<<Sym("="), App(<<Sym("/"), Sym("1"), Sym("2"), Sym("3")>>), Sym("6")>>),
          App(<<Sym("="), App(<<Sym("="), Sym("1"), Sym("1")>>), App(<<Sym("<"), Sym("1"), Sym("2")>>)>>),
          App(<<Sym("="), App(<<Sym("="), Sym("1"), Sym("1")>>), Sym("1")>>),
          App(<<Sym("<"), App(<<Sym("-"), Sym("3")>>), App(<<Sym("^"), Sym("2"), Sym("3")>>)>>),
          App(<<Sym("+"), App(<<Sym("="), Sym("1"), Sym("1")>>), Sym("x")>>),
          App(<<Sym("="), App(<<Sym("%"), Sym("7"), Sym("3")>>), Sym("1")>>),
          App(<<Sym("="), Env(FALSE, <<>>), Sym("1")>>)}

InitArithmetic ==
    /\ phase = "arithmetic"
    /\ tgt \in ArithmeticPool
    /\ arg = [kind |-> "none"]
    /\ con = NewConstraint(NoExpr, NoExpr)
    /\ conState = "none"
    /\ sub = NewSubstitution(NoExpr, NoExpr)
    /\ subState = "none"
    /\ res = NoRes
    /\ problem = NoProblem
    /\ steps = 0
    /\ search = NoSearch
    /\ NoDocument

ArithmeticValidator ==
    /\ phase = "arithmetic" /\ res.op = "none"
    /\ LET r == arithmeticValidator(tgt)
       IN  res' = [op |-> "arithmeticValidator", threw |-> r.threw, result |-> r.result,
                   reason |-> r.reason, message |-> r.message]
    /\ UNCHANGED <<phase, con, conState, sub, subState, tgt, arg, problem, steps, search,
                   tree, concepts, IDs, database>>

NextArithmetic == ArithmeticValidator

SpecArithmetic == InitArithmetic /\ [][NextArithmetic]_vars

(* a nested application of a supported operator, at one of its arities, to
   numeric symbols *)
RECURSIVE isArithmetic(_)
isArithmetic(e) ==
    /\ isAnExpression(e)
    /\ \/ e.k = "sym" /\ ~isNaN(e.n)
       \/ /\ e.k = "app" /\ Len(e.ch) >= 1
          /\ e.ch[1].k = "sym" /\ e.ch[1].n \in DOMAIN arithmeticOperatorsInJS
          /\ (Len(e.ch) - 1) \in arithmeticOperatorsInJS[e.ch[1].n]
          /\ \A m \in 2..Len(e.ch) : isArithmetic(e.ch[m])

(* what such an expression evaluates to *)
RECURSIVE evaluate(_)
evaluate(e) ==
    IF e.k = "sym" THEN Num(Numerals[e.n])
    ELSE applyOperator(e.ch[1].n, [m \in 1..(Len(e.ch) - 1) |-> evaluate(e.ch[m + 1])])

namesAreRight(S) == metavariableNames(S) = metavariableNamesIn(S.expression)

C24_CachedNames ==
    LiveSub =>
        /\ namesAreRight(sub)
        /\ (res.op \in {"copy", "afterSubstituting", "substituteCopy"} /\ Len(res.list) = 1)
              => namesAreRight(res.list[1])

(***************************************************************************)
(* The pruning predicates against their definitions.                       *)
(***************************************************************************)
(* a fresh classification of the constraint's current pattern and expression *)
classifiedAfresh(c) == complexity(NewConstraint(c.pattern, c.expression))

(* the pattern is an EFA whose arguments are metavariable-free and absent from e *)
everyArgumentIsAbsent(c) ==
    /\ isAnEFA(c.pattern)
    /\ \A m \in 3..numChildren(c.pattern) :
          /\ ~containsAMetavariable(c.pattern.ch[m])
          /\ numberOfOccurrences(c.pattern.ch[m], c.expression) = 0

(* argument index (from 0) occurs once in e or contains a metavariable *)
mayBeProjected(c, index) ==
    \/ numberOfOccurrences(c.pattern.ch[index + 3], c.expression) = 1
    \/ containsAMetavariable(c.pattern.ch[index + 3])

(* C25: canBeOnlyConstantEFA() is true exactly for the constraints whose   *)
(* pattern is an EFA all of whose arguments contain no metavariable and    *)
(* occur zero times in e, and false for every other constraint; that is,   *)
(* exactly when the constraint's complexity is 4.                          *)
C25_OnlyConstant ==
    (Live /\ res.op = "canBeOnlyConstantEFA") =>
        /\ res.bool <=> everyArgumentIsAbsent(con)
        /\ res.bool <=> (classifiedAfresh(con).complexity = 4)

(* C26: for a classified EFA constraint and every argument index k,        *)
(* canBeAProjectionEFA(k) is true if and only if argument k occurs exactly *)
(* once in e or contains a metavariable, k counting the arguments in order *)
C26_Projection ==
    (Live /\ res.op = "canBeAProjectionEFA" /\ con.hasComplexity) =>
        /\ ~res.threw
        /\ res.bool <=> mayBeProjected(con, res.int)

(* C30: the pruning predicates answer the same, and raise nothing, whether *)
(* or not complexity() has been called, and a copy() of a constraint       *)
(* answers as the original does.                                           *)
sameAnswers(c, d) ==
    /\ canBeOnlyConstantEFA(c) = canBeOnlyConstantEFA(d)
    /\ isAnEFA(c.pattern) =>
          \A index \in 0..(numChildren(c.pattern) - 3) :
              canBeAProjectionEFA(c, index) = canBeAProjectionEFA(d, index)

C30_CallOrder ==
    Live =>
        /\ res.op = "canBeOnlyConstantEFA" =>
              res.bool = canBeOnlyConstantEFA(complexity(con))
        /\ res.op = "canBeAProjectionEFA" =>
              /\ ~res.threw
              /\ res.bool = canBeAProjectionEFA(complexity(con), res.int).value
        /\ (res.op = "copy" /\ ~res.threw) => sameAnswers(res.list[1], con)

(***************************************************************************)
(* The candidates of one EFA constraint.  The constraint (F(a1..an), e) is *)
(* the one the solver reaches below a binder of x: its pattern and its     *)
(* expression are the encoded bodies of (x , F(a1..an)) and (x , e), and a *)
(* candidate for F is lambda v1..vn . body.                                *)
(***************************************************************************)
under(e) == encodeExpression(Bind(<<symX, e>>)).ch[2]

BranchArgs == {symX, symY, mvB}

BranchExpressions ==
    {symX, symY, App(<<symF, symX>>), App(<<symF, symY>>),
     Bind(<<symY, symY>>), Bind(<<symY, App(<<symF, symY>>)>>),
     Bind(<<symY, App(<<symF, symX>>)>>)}

BranchBodies ==
    BranchExpressions
        \cup {Sym(ParamNames[1]), Sym(ParamNames[2]),
              App(<<symF, Sym(ParamNames[1])>>), App(<<symF, Sym(ParamNames[2])>>),
              Bind(<<symY, App(<<symF, Sym(ParamNames[1])>>)>>)}

InitBranches ==
    /\ phase = "branches"
    /\ arg \in {[kind |-> "branch", p |-> under(EFA(mvA, args)), e |-> under(e),
                 body |-> under(b)] :
                    args \in SeqsUpTo(BranchArgs, MaxArgs), e \in BranchExpressions,
                    b \in BranchBodies}
    /\ con = NewConstraint(NoExpr, NoExpr)
    /\ conState = "none"
    /\ sub = NewSubstitution(NoExpr, NoExpr)
    /\ subState = "none"
    /\ tgt = NoExpr
    /\ res = NoRes
    /\ problem = NoProblem
    /\ steps = 0
    /\ search = NoSearch
    /\ NoDocument

(* the instantiations of the metavariable B of the arguments, none included *)
Instantiations ==
    {<<>>} \cup {<<NewSubstitution(mvB, under(t))>> : t \in BranchExpressions}

(* F |-> ef, with some instantiation of the arguments' metavariable, makes
   the pattern of c, beta reduced, structurally equal to its expression *)
solves(c, ef) ==
    \E sigma \in Instantiations :
        deBruijnEquals(
            fullBetaReduce(SimultaneousAll(<<NewSubstitution(c.pattern.ch[2], ef)>> \o sigma,
                                           c.pattern)),
            c.expression)

(* the constraint is classified when the solver picks it *)
Classify ==
    /\ phase = "branches" /\ conState = "none"
    /\ con' = complexity(NewConstraint(arg.p, arg.e))
    /\ conState' = "live"
    /\ res' = Result("complexity")
    /\ UNCHANGED <<phase, arg, NotConstraint>>

(* the candidate F |-> lambda v1..vn . body is tried *)
TryCandidate ==
    /\ phase = "branches" /\ conState = "live"
    /\ LET n == numChildren(con.pattern) - 2
       IN  res' = [Result("candidate") EXCEPT
                       !.expr = newEF(n, arg.body),
                       !.bool = solves(con, newEF(n, arg.body))]
    /\ UNCHANGED <<phase, con, conState, arg, NotConstraint>>

(* the k-th Projection F |-> lambda v1..vn . vk is tried *)
TryProjection ==
    /\ phase = "branches" /\ conState = "live"
    /\ LET n == numChildren(con.pattern) - 2
       IN  \E k \in 1..n :
               res' = [Result("projection") EXCEPT
                           !.int = k,
                           !.expr = projectionEF(n, k),
                           !.bool = solves(con, projectionEF(n, k))]
    /\ UNCHANGED <<phase, con, conState, arg, NotConstraint>>

NextBranches == Classify \/ TryCandidate \/ TryProjection

SpecBranches == InitBranches /\ [][NextBranches]_vars

(* C27: when an EFA constraint (F(a1..an), e) has complexity exactly 4,    *)
(* every substitution for F that solves the constraint is the constant     *)
(* function returning e, so that the Constant branch alone yields every    *)
(* solution for F that the Projection and Imitation branches would yield.  *)
C27_OnlyConstantSolves ==
    (phase = "branches" /\ res.op \in {"candidate", "projection"}
        /\ canBeOnlyConstantEFA(con) /\ res.bool) =>
        deBruijnEquals(res.expr, constantEF(numChildren(con.pattern) - 2, con.expression))

(* C28: for every EFA constraint (F(a1..an), e) and index k, if the k-th   *)
(* projection solves the constraint, possibly after instantiating the      *)
(* metavariables inside ak, then canBeAProjectionEFA(k) is true; a         *)
(* metavariable-free ak equal to e counts as occurring exactly once in e.  *)
C28_ProjectionKept ==
    (phase = "branches" /\ res.op = "projection") =>
        /\ res.bool => canBeAProjectionEFA(con, res.int - 1).value
        /\ LET ak == con.pattern.ch[res.int + 2]
           IN  (~containsAMetavariable(ak) /\ deBruijnEquals(ak, con.expression)) =>
                   con.argumentCopyCount[res.int] = 1

C28_Witness ==
    /\ phase = "branches" /\ res.op = "projection" /\ res.bool
    /\ res.int = 2
    /\ ~containsAMetavariable(con.pattern.ch[4])
    /\ isMarker(con.expression)

(***************************************************************************)
(* The storage convention of Connection under every call that writes       *)
(* connection data.                                                        *)
(***************************************************************************)
(* connection.setAttribute( key, value ) *)
setAttribute(st, c, key, value) ==
    setData(st, c, {p \in getData(st, c).val : p[1] # key} \cup {<<key, value>>})

(* connection.clearAttributes( ...keys ) *)
clearAttributes(st, c, keys) ==
    setData(st, c, {p \in getData(st, c).val : p[1] \notin keys})

(* connection.handleIDChange( oldID, newID ) *)
handleIDChange(st, c, oldID, newID) ==
    LET s == source(st, c)
        t == target(st, c)
    IN  IF s = Undefined \/ t = Undefined THEN st
        ELSE LET st1 == IF ID(s) = oldID
                        THEN [st EXCEPT !.concepts[t].source[c] = newID]
                        ELSE st
             IN  IF ID(t) = oldID
                 THEN [st1 EXCEPT !.concepts[s].target[c] = newID]
                 ELSE st1

AttributePool == {{}, {<<"k", "v">>}}
(* the IDs a concept is said to have taken *)
NewIDs == {"m3"}
MaxIDChanges == 1

(* attr(), setAttribute() and clearAttributes() return whether the data
   were written, which is whether the connection has a source *)
Attr(c, attributes) ==
    /\ phase = "connection" /\ res.op = "none"
    /\ LET st == attr(State, c, attributes)
       IN  /\ concepts' = st.concepts
           /\ IDs' = st.IDs
    /\ res' = [Result("attr") EXCEPT !.bool = (source(State, c) # Undefined)]
    /\ UNCHANGED NotConnection

SetAttribute(c, key, value) ==
    /\ phase = "connection" /\ res.op = "none"
    /\ LET st == setAttribute(State, c, key, value)
       IN  /\ concepts' = st.concepts
           /\ IDs' = st.IDs
    /\ res' = [Result("setAttribute") EXCEPT !.bool = (source(State, c) # Undefined)]
    /\ UNCHANGED NotConnection

ClearAttributes(c, keys) ==
    /\ phase = "connection" /\ res.op = "none"
    /\ LET st == clearAttributes(State, c, keys)
       IN  /\ concepts' = st.concepts
           /\ IDs' = st.IDs
    /\ res' = [Result("clearAttributes") EXCEPT !.bool = (source(State, c) # Undefined)]
    /\ UNCHANGED NotConnection

(* steps counts the calls of handleIDChange() *)
HandleIDChange(c, oldID, newID) ==
    /\ phase = "connection" /\ res.op = "none"
    /\ steps < MaxIDChanges
    /\ LET st == handleIDChange(State, c, oldID, newID)
       IN  /\ concepts' = st.concepts
           /\ IDs' = st.IDs
    /\ res' = Result("handleIDChange")
    /\ steps' = steps + 1
    /\ UNCHANGED <<phase, con, conState, sub, subState, tgt, arg, problem, search, tree, database>>

NextConsistency ==
    \/ Returned
    \/ \E c \in ConnectionIDs, s, t \in Objects, d \in DataPool : Create(c, s, t, d)
    \/ \E c \in ConnectionIDs : Remove(c)
    \/ \E c \in ConnectionIDs, attributes \in AttributePool : Attr(c, attributes)
    \/ \E c \in ConnectionIDs, key \in Keys : SetAttribute(c, key, "v")
    \/ \E c \in ConnectionIDs, keys \in SUBSET Keys : ClearAttributes(c, keys)
    \/ \E g, r \in Objects : \E order \in Orders(getConnectionIDs(concepts, g)) :
          TransferConnections(g, r, order)
    \/ \E c \in ConnectionIDs, oldID \in Objects, newID \in NewIDs :
          HandleIDChange(c, oldID, newID)

SpecConsistency == InitConnection /\ [][NextConsistency]_vars

(* C29: after any sequence of create, remove, attr, setAttribute,          *)
(* clearAttributes, transferConnections and handleIDChange calls, for      *)
(* every ID C in Connection.IDs with source X, X carries "_conn target C"  *)
(* naming an existing MathConcept Y and Y carries "_conn source C" equal   *)
(* to the ID of X; and no MathConcept carries a "_conn source C", "_conn   *)
(* target C" or "_conn data C" attribute for an ID C not in Connection.IDs *)
(* - also when transferConnections stops early and returns false.          *)
C29_Consistent ==
    phase = "connection" =>
        \A c \in ConnectionIDs :
            IF IDs[c] # Undefined
            THEN LET X == IDs[c]
                     targetID == concepts[X].target[c]
                 IN  /\ instanceWithID(concepts, targetID) # Undefined
                     /\ concepts[instanceWithID(concepts, targetID)].source[c] = ID(X)
            ELSE \A o \in Objects :
                     /\ concepts[o].source[c] = Undefined
                     /\ concepts[o].target[c] = Undefined
                     /\ concepts[o].data[c] = Null

====
